---- MODULE Spec2Model ----
(***************************************************************************)
(* State-machine model of the authentication / session core of            *)
(* express-sequelize-api: the auth controller (login, signup,             *)
(* verification, forgot/reset password, logout), the user controller's    *)
(* profile update, and the verifyToken / roleAuthorization middlewares.   *)
(*                                                                         *)
(* Every request handler is an async function; the model splits a handler *)
(* at the database round trips it awaits, so that two requests interleave *)
(* exactly where the event loop lets them.  Code that runs synchronously  *)
(* between two awaits is one step.                                         *)
(***************************************************************************)
EXTENDS Integers, Sequences, FiniteSets, TLC

\* ------------------------------------------------------------------ bounds
MaxReq == 2          \* requests in flight at once
MaxSessions == 2     \* rows the Sessions table may grow to
MaxUsers == 2        \* rows the Users table may grow to
MaxTick == 2         \* clock ticks explored after start and after a jump
MaxMail == 2         \* notifications kept in the outbox
MaxRoles == 3        \* rows the Roles table may grow to

\* --------------------------------------------------------- program constants
TicksPerSec == 2     \* clock resolution of the model: Date.now() is finer than the second jwt counts in
OneHour == 3600      \* expiresIn: '1h', in seconds

Slots == 1..MaxReq
Usernames == {"alice", "bob"}
Emails == {"a@x.com", "b@x.com"}
Passwords == {"secret1", "secret2"}
RoleNames == {"user", "admin"}

\* JavaScript undefined / missing value of a string field, an id, a claim
NoStr == ""
NoId == 0

\* ------------------------------------------------------------------ tokens
\* A JWT: header algorithm, the key that produced the signature, the claims
\* (NoId / NoStr / "absent" when the claim is not in the payload), iat and exp
\* in whole seconds.
NoToken == [alg |-> "none", key |-> "none", id |-> NoId, username |-> NoStr,
            email |-> NoStr, verified |-> "absent", iat |-> 0, exp |-> 0]

BoolClaim(b) == IF b THEN "true" ELSE "false"

\* Date.now() truncated to the whole seconds jsonwebtoken works in
Seconds(now) == now \div TicksPerSec

ExpiresIn(iat) == iat + OneHour

\* jwt.sign(payload, key, {algorithm, expiresIn: '1h'}) at clock value now
JwtSign(alg, key, id, username, email, verified, now) ==
    [alg |-> alg, key |-> key, id |-> id, username |-> username,
     email |-> email, verified |-> verified,
     iat |-> Seconds(now), exp |-> ExpiresIn(Seconds(now))]

\* Does the signature of t check under the given verification key?
\* An RS256 signature made with the private key checks under the public key;
\* an HS256 signature checks under the very secret that made it.
SignatureOk(t, vkey) ==
    \/ t.alg = "RS256" /\ vkey = "public" /\ t.key = "private"
    \/ t.alg = "HS256" /\ vkey = t.key

\* variant: the boundary instant itself still passes
JwtExpiredStrict(t, now) == Seconds(now) > t.exp

JwtExpired(t, now) == Seconds(now) >= t.exp

\* jwt.verify(token, vkey, {algorithms}) : "ok" or the library's error
JwtVerify(t, vkey, algorithms, now) ==
    IF t = NoToken THEN "jwt must be provided"
    ELSE IF t.alg \notin algorithms THEN "invalid algorithm"
    ELSE IF ~SignatureOk(t, vkey) THEN "invalid signature"
    ELSE IF JwtExpired(t, now) THEN "jwt expired"
    ELSE "ok"

\* verifyToken pins RS256 and the public key
VerifySessionJwt(t, now) == JwtVerify(t, "public", {"RS256"}, now)

\* variant: the payload is decoded without checking algorithm, signature or expiry
DecodeOnly(t, now) == IF t = NoToken THEN "jwt must be provided" ELSE "ok"

\* jwt.verify(token, jwt_config.secret) without options: a secret key admits
\* the HMAC algorithms only
VerifyActionJwt(t, now) == JwtVerify(t, "secret", {"HS256"}, now)

\* ---------------------------------------------------------------- password
\* bcrypt.hash / bcrypt.compare (the random salt is left out: no code path
\* compares two digests)
Hash(p) == <<"bcrypt", p>>

\* variant: every password matches
CompareAlways(p, digest) == TRUE

Compare(p, digest) == digest = Hash(p)


\* ------------------------------------------------------------------- state
VARIABLES
    users,      \* Users table: sequence of rows, the id is the position
    sessions,   \* Sessions table: set of rows [token, flag, userId]
    roles,      \* Roles table: sequence of role names, the id is the position
    userRoles,  \* UserRoles junction table: set of <<userId, roleId>>
    mailbox,    \* notifications handed to the mail transport: [to, token]
    clock,      \* Date.now(), in ticks of 1/TicksPerSec second
    req,        \* the requests in flight, one per slot
    consumed,   \* history: <<id, email>> of every verify-email token accepted
    issued,     \* history: every action token a handler has signed
    clienttable, \* legacy program: public.clienttable, c_id is the position
    lreq,       \* legacy program: the requests in flight, one per slot
    outbox      \* legacy program: mails handed to the transport [to, path, token]

vars == <<users, sessions, roles, userRoles, mailbox, clock, req, consumed, issued,
          clienttable, lreq, outbox>>

\* a row of Users as a model instance read from the table (id 0: none)
NoSnap == [id |-> NoId, username |-> NoStr, email |-> NoStr,
           password |-> <<"bcrypt", NoStr>>, emailVerified |-> FALSE]

Snap(uid) == [id |-> uid, username |-> users[uid].username,
              email |-> users[uid].email, password |-> users[uid].password,
              emailVerified |-> users[uid].emailVerified]

\* req.user as verifyToken attaches it (present = FALSE: req.user undefined;
\* hasRole = FALSE: req.user.role undefined)
NoCtx == [present |-> FALSE, id |-> NoId, username |-> NoStr,
          verified |-> FALSE, hasRole |-> FALSE, role |-> {}]

\* an empty slot; the fields are the request's inputs (tok: bearer token or
\* :token path segment, btok: body.token, username, email, password,
\* newPassword, roleName, userId, roleId,
\* allowed: the route's allowedRoles), the handler's locals (snap, ctx, link:
\* the action token of the link being mailed) and
\* the response (status, msg, out: the token in the body, outRoles: the role
\* names in the body; nexted: next() ran)
Idle == [op |-> "idle", pc |-> "idle", tok |-> NoToken, btok |-> NoToken,
         username |-> NoStr, email |-> NoStr, password |-> NoStr,
         newPassword |-> NoStr, roleName |-> NoStr, userId |-> NoId, roleId |-> NoId,
         allowed |-> {}, snap |-> NoSnap, ctx |-> NoCtx, link |-> NoToken,
         nexted |-> FALSE, status |-> 0, msg |-> NoStr, out |-> NoToken,
         outRoles |-> {}]

\* res.status(status).json({message: msg})
Respond(r, status, msg) ==
    [r EXCEPT !.pc = "done", !.status = status, !.msg = msg,
              !.snap = NoSnap, !.link = NoToken]

\* slot s takes a new request: it is empty, or its last response was delivered
Free(s) == req[s].pc \in {"idle", "done"}

InFlight(op) == {s \in Slots : req[s].op = op /\ req[s].pc # "done"}

\* variant: the lookup carries no where clause and returns the first row
FindAnyUser(u) == IF Len(users) > 0 THEN 1 ELSE NoId

\* db.user.findOne({where: {username}}) -> id or NoId
FindByUsername(u) ==
    IF \E i \in 1..Len(users) : users[i].username = u
    THEN CHOOSE i \in 1..Len(users) : users[i].username = u ELSE NoId

\* variant: the lookup by email finds verified identities only
FindByEmailVerified(e) ==
    IF \E i \in 1..Len(users) : users[i].email = e /\ users[i].emailVerified
    THEN CHOOSE i \in 1..Len(users) : users[i].email = e /\ users[i].emailVerified
    ELSE NoId

\* db.user.findOne({where: {email}}) -> id or NoId
FindByEmail(e) ==
    IF \E i \in 1..Len(users) : users[i].email = e
    THEN CHOOSE i \in 1..Len(users) : users[i].email = e ELSE NoId

\* variant: an identity whose password is no longer the first one tried is
\* not found
FindByIdUsernameSamePassword(id, u) ==
    IF id \in 1..Len(users) /\ users[id].username = u /\ users[id].password = Hash("secret1")
    THEN id ELSE NoId

\* variant: the lookup matches the id whatever the username
FindByIdAnyName(id, u) == IF id \in 1..Len(users) THEN id ELSE NoId

\* db.user.findOne({where: {id, username}}) -> id or NoId
FindByIdUsername(id, u) ==
    IF id \in 1..Len(users) /\ users[id].username = u THEN id ELSE NoId

\* variant: the lookup matches identities not yet verified only
FindUnverified(id, e) ==
    IF id \in 1..Len(users) /\ users[id].email = e /\ ~users[id].emailVerified
    THEN id ELSE NoId

\* variant: the lookup matches the id alone
FindByIdOnly(id, e) == IF id \in 1..Len(users) THEN id ELSE NoId

\* db.user.findOne({where: {id, email}}) -> id or NoId
FindByIdEmail(id, e) ==
    IF id \in 1..Len(users) /\ users[id].email = e THEN id ELSE NoId

\* db.session.findOne({where: {token}}) -> the rows holding the token
SessionsOf(t) == {x \in sessions : x.token = t}

\* user.Roles?.map(val => val.roleName) of include: [db.role]
RolesOf(uid) == {roles[x[2]] : x \in {y \in userRoles : y[1] = uid /\ y[2] \in 1..Len(roles)}}

\* ------------------------------------------------------------------- login
\* validationErrorHandler: res.status(400).json({errors: errors.array()})
ValidationFailed(r) == Respond(r, 400, "errors")

\* validateLogin: oneOf(username notEmpty, email isEmail), password min 6
ValidLogin(u, e, p) == (u # NoStr \/ e # NoStr) /\ p # NoStr

\* POST /login up to the password comparison: the validators, the presence
\* check on username and password (the body's email is not read), then
\* db.user.findOne by username and bcrypt.compare against the row read
Login(s, u, e, p) ==
    /\ Free(s)
    /\ Cardinality(sessions) + Cardinality(InFlight("login")) < MaxSessions
    /\ LET r == [Idle EXCEPT !.op = "login", !.username = u, !.email = e, !.password = p]
           uid == FindByUsername(u)
       IN req' = [req EXCEPT ![s] =
                    IF ~ValidLogin(u, e, p)
                    THEN ValidationFailed(r)
                    ELSE IF u = NoStr \/ p = NoStr
                    THEN Respond(r, 400, "Username and password are required")
                    ELSE IF uid = NoId
                    THEN Respond(r, 401, "Invalid username or password")
                    ELSE IF ~Compare(p, users[uid].password)
                    THEN Respond(r, 401, "Invalid username or password")
                    ELSE [r EXCEPT !.pc = "login_create", !.snap = Snap(uid)]]
    /\ UNCHANGED <<users, sessions, roles, userRoles, mailbox, clock, consumed, issued>>
    /\ UNCHANGED <<clienttable, lreq, outbox>>

\* the session token login signs from the row it read
LoginToken(snap, now) ==
    JwtSign("RS256", "private", snap.id, snap.username, NoStr,
            BoolClaim(snap.emailVerified), now)

\* variant: the token column carries no unique index
SessionInsertNever(t) == FALSE

\* db.session.create({token, flag: false, userId}): the token column is unique
SessionInsertFails(t) == \E x \in sessions : x.token = t

\* variant: the row is created flagged
NewSessionFlagged(t, uid) == [token |-> t, flag |-> TRUE, userId |-> uid]

\* the row login creates: {token, flag: false, userId: user.id}
NewSession(t, uid) == [token |-> t, flag |-> FALSE, userId |-> uid]

\* jwt.sign, db.session.create, then the 200 response carrying the token;
\* a rejected insert lands in the catch block
LoginCreate(s) ==
    /\ req[s].pc = "login_create"
    /\ LET r == req[s]
           t == LoginToken(r.snap, clock)
       IN IF SessionInsertFails(t)
          THEN /\ req' = [req EXCEPT ![s] = Respond(r, 500, "Server error")]
               /\ UNCHANGED sessions
          ELSE /\ sessions' = sessions \cup {NewSession(t, r.snap.id)}
               /\ req' = [req EXCEPT ![s] = [Respond(r, 200, NoStr) EXCEPT !.out = t]]
    /\ UNCHANGED <<users, roles, userRoles, mailbox, clock, consumed, issued>>
    /\ UNCHANGED <<clienttable, lreq, outbox>>

\* db.session.create rejects for a cause other than the index (the database
\* is unreachable): the catch block answers 500 and no row is written
LoginCreateFault(s) ==
    /\ req[s].pc = "login_create"
    /\ req' = [req EXCEPT ![s] = Respond(req[s], 500, "Server error")]
    /\ UNCHANGED <<users, sessions, roles, userRoles, mailbox, clock, consumed, issued>>
    /\ UNCHANGED <<clienttable, lreq, outbox>>

\* ------------------------------------------------------------- verifyToken
\* the routes behind verifyToken that the model drives
AuthOps == {"verify", "logout", "updateUser"}

\* variant: only a payload lacking both claims is refused
MissingBoth(t) == t.id = NoId /\ t.username = NoStr

\* !decoded.id || !decoded.username
MissingClaims(t) == t.id = NoId \/ t.username = NoStr

\* verifyToken up to its first await, for the request r just received:
\* header, jwt.verify, claim presence
VtStart(r, now) ==
    IF r.tok = NoToken
    THEN Respond(r, 401, "No token provided")
    ELSE IF VerifySessionJwt(r.tok, now) # "ok"
    THEN Respond(r, 401, "Invalid token")
    ELSE IF MissingClaims(r.tok)
    THEN Respond(r, 401, "Token is missing required user information")
    ELSE [r EXCEPT !.pc = "vt_session"]

\* a request to one of the routes whose chain starts with verifyToken.
\* u, e are the body fields of PUT /user (NoStr: field not sent).
StartAuth(s, op, t, u, e) ==
    /\ Free(s)
    /\ op \in AuthOps
    /\ (op # "updateUser") => (u = NoStr /\ e = NoStr)
    /\ LET r == [Idle EXCEPT !.op = op, !.tok = t, !.username = u, !.email = e]
       IN req' = [req EXCEPT ![s] = VtStart(r, clock)]
    /\ UNCHANGED <<users, sessions, roles, userRoles, mailbox, clock, consumed, issued>>
    /\ UNCHANGED <<clienttable, lreq, outbox>>

\* fs.readFileSync(publicKeyPath) throws (the key file is missing) for a
\* request that carries a token: the statement sits outside verifyToken's try
\* block, so the async function rejects.  What the client then sees depends
\* on the framework release, which the repository does not pin: the rejection
\* is dropped and the request is never answered, or the framework's default
\* error handler answers 500.
VtKeyFault(s, op, t, answered) ==
    /\ Free(s)
    /\ op \in AuthOps
    /\ t # NoToken
    /\ LET r == [Idle EXCEPT !.op = op, !.tok = t]
       IN req' = [req EXCEPT ![s] = IF answered
                                    THEN Respond(r, 500, "Internal Server Error")
                                    ELSE [r EXCEPT !.pc = "hung"]]
    /\ UNCHANGED <<users, sessions, roles, userRoles, mailbox, clock, consumed, issued>>
    /\ UNCHANGED <<clienttable, lreq, outbox>>

\* POST /user/change-password with a body that passes the validators, up to
\* verifyToken's first await
StartChange(s, t, cur, new) ==
    /\ Free(s)
    /\ LET r == [Idle EXCEPT !.op = "changePassword", !.tok = t,
                     !.password = cur, !.newPassword = new]
       IN req' = [req EXCEPT ![s] = VtStart(r, clock)]
    /\ UNCHANGED <<users, sessions, roles, userRoles, mailbox, clock, consumed, issued>>
    /\ UNCHANGED <<clienttable, lreq, outbox>>

\* the role routes: POST /roles, POST /assign-role, GET /user/:userId/roles
RoleOps == {"createRole", "assignRole", "getUserRoles"}

\* validateCreateRole, validateAssignRoleToUser, validateGetUserRoles: the
\* fields each role route requires to be non-empty
ValidRole(op, rn, uid, rid) ==
    CASE op = "createRole" -> rn # NoStr
      [] op = "assignRole" -> uid # NoId /\ rid # NoId
      [] op = "getUserRoles" -> uid # NoId

\* a request to a role route (roleName for POST /roles, userId and roleId for
\* POST /assign-role, the :userId segment for GET /user/:userId/roles): the
\* validators and validationErrorHandler, which the route lists first, then
\* verifyToken up to its first await
StartRole(s, op, t, rn, uid, rid) ==
    /\ Free(s)
    /\ op \in RoleOps
    /\ (op = "createRole") => Len(roles) + Cardinality(InFlight("createRole")) < MaxRoles
    /\ LET r == [Idle EXCEPT !.op = op, !.tok = t,
                     !.roleName = IF op = "createRole" THEN rn ELSE NoStr,
                     !.userId = IF op = "createRole" THEN NoId ELSE uid,
                     !.roleId = IF op = "assignRole" THEN rid ELSE NoId]
       IN req' = [req EXCEPT ![s] = IF ValidRole(op, rn, uid, rid)
                                    THEN VtStart(r, clock)
                                    ELSE ValidationFailed(r)]
    /\ UNCHANGED <<users, sessions, roles, userRoles, mailbox, clock, consumed, issued>>
    /\ UNCHANGED <<clienttable, lreq, outbox>>

\* variant: the flag is not looked at
BlacklistedAbsentOnly(t) == SessionsOf(t) = {}

\* variant: a token without a row passes
BlacklistedFlagOnly(t) == \E x \in SessionsOf(t) : x.flag

\* !blacklistedToken || blacklistedToken.flag === true
Blacklisted(t) == SessionsOf(t) = {} \/ \E x \in SessionsOf(t) : x.flag

\* db.session.findOne({where: {token}}) and the blacklist test
VtSession(s) ==
    /\ req[s].pc = "vt_session"
    /\ LET r == req[s]
       IN req' = [req EXCEPT ![s] =
                    IF Blacklisted(r.tok)
                    THEN Respond(r, 401, "Token is blacklisted")
                    ELSE [r EXCEPT !.pc = "vt_user"]]
    /\ UNCHANGED <<users, sessions, roles, userRoles, mailbox, clock, consumed, issued>>
    /\ UNCHANGED <<clienttable, lreq, outbox>>

\* variant: a failed lookup is reported as a server error
LookupFailed500(r) == Respond(r, 500, "Token verification failed")

\* verifyToken's catch block: res.status(401).json({message: 'Token
\* verification failed', error: error.message})
LookupFailed(r) == Respond(r, 401, "Token verification failed")

\* db.session.findOne rejects (the database is unreachable)
VtSessionFault(s) ==
    /\ req[s].pc = "vt_session"
    /\ req' = [req EXCEPT ![s] = LookupFailed(req[s])]
    /\ UNCHANGED <<users, sessions, roles, userRoles, mailbox, clock, consumed, issued>>
    /\ UNCHANGED <<clienttable, lreq, outbox>>

\* db.user.findOne rejects (the database is unreachable)
VtUserFault(s) ==
    /\ req[s].pc = "vt_user"
    /\ req' = [req EXCEPT ![s] = LookupFailed(req[s])]
    /\ UNCHANGED <<users, sessions, roles, userRoles, mailbox, clock, consumed, issued>>
    /\ UNCHANGED <<clienttable, lreq, outbox>>

\* variant: every allowed role is required (every instead of some)
RoleAuthorizationEvery(allowed, ctx) ==
    IF ~ctx.present \/ ~ctx.hasRole
    THEN [next |-> FALSE, status |-> 403, msg |-> "Access denied"]
    ELSE IF ~\A a \in allowed : a \in ctx.role
    THEN [next |-> FALSE, status |-> 403, msg |-> "Forbidden: Insufficient permissions"]
    ELSE [next |-> TRUE, status |-> 0, msg |-> NoStr]

\* roleAuthorization(allowedRoles)(req, res, next): the decision and response
RoleAuthorization(allowed, ctx) ==
    IF ~ctx.present \/ ~ctx.hasRole
    THEN [next |-> FALSE, status |-> 403, msg |-> "Access denied"]
    ELSE IF ~\E a \in allowed : a \in ctx.role
    THEN [next |-> FALSE, status |-> 403, msg |-> "Forbidden: Insufficient permissions"]
    ELSE [next |-> TRUE, status |-> 0, msg |-> NoStr]

\* variant: the role routes admit the default role
RouteRolesUser(op) == {"user"}

\* the allowedRoles each role route hands to roleAuthorization
RouteRoles(op) == {"admin"}

\* the chain of a role route after verifyToken: roleAuthorization, then the
\* controller up to the query it awaits
RoleGate(r, stage) ==
    LET d == RoleAuthorization(RouteRoles(r.op), r.ctx)
    IN IF d.next THEN [r EXCEPT !.pc = stage, !.allowed = RouteRoles(r.op)]
       ELSE Respond([r EXCEPT !.allowed = RouteRoles(r.op)], d.status, d.msg)

\* the stage next() enters for each route
Controller(r) ==
    CASE r.op = "verify" -> Respond(r, 200, "User is authenticated")
      [] r.op = "logout" -> [r EXCEPT !.pc = "logout_update"]
      [] r.op = "updateUser" -> [r EXCEPT !.pc = "upd_find"]
      [] r.op = "changePassword" -> [r EXCEPT !.pc = "cp_find"]
      [] r.op = "createRole" -> RoleGate(r, "role_create")
      [] r.op = "assignRole" -> RoleGate(r, "role_assign")
      [] r.op = "getUserRoles" -> RoleGate(r, "role_get")

\* variant: the verified flag is the token's claim
UserContextAtIssue(uid, t) ==
    [present |-> TRUE, id |-> uid, username |-> users[uid].username,
     verified |-> (t.verified = "true"),
     hasRole |-> TRUE, role |-> RolesOf(uid)]

\* req.user = {id: user.id, username: user.username,
\* verified: user.emailVerified, role: user.Roles.map(roleName)}, from the row
\* the lookup returned
UserContext(uid, t) ==
    [present |-> TRUE, id |-> uid, username |-> users[uid].username,
     verified |-> users[uid].emailVerified,
     hasRole |-> TRUE, role |-> RolesOf(uid)]

\* db.user.findOne by the decoded id and username with the roles joined,
\* req.user = {id, username, verified, role}, next()
VtUser(s) ==
    /\ req[s].pc = "vt_user"
    /\ LET r == req[s]
           uid == FindByIdUsername(r.tok.id, r.tok.username)
       IN req' = [req EXCEPT ![s] =
                    IF uid = NoId
                    THEN Respond(r, 401, "User not found")
                    ELSE Controller([r EXCEPT !.nexted = TRUE,
                                              !.ctx = UserContext(uid, r.tok)])]
    /\ UNCHANGED <<users, sessions, roles, userRoles, mailbox, clock, consumed, issued>>
    /\ UNCHANGED <<clienttable, lreq, outbox>>

\* ------------------------------------------------------------------ logout
\* variant: the update matches on userId alone
RevokeAllOfUser(t, uid) ==
    {IF x.userId = uid THEN [x EXCEPT !.flag = TRUE] ELSE x : x \in sessions}

\* db.session.update({flag: true}, {where: {token, userId}})
Revoke(t, uid) ==
    {IF x.token = t /\ x.userId = uid THEN [x EXCEPT !.flag = TRUE] ELSE x : x \in sessions}

LogoutUpdate(s) ==
    /\ req[s].pc = "logout_update"
    /\ sessions' = Revoke(req[s].tok, req[s].ctx.id)
    /\ req' = [req EXCEPT ![s] = Respond(req[s], 200, "Logged out successfully")]
    /\ UNCHANGED <<users, roles, userRoles, mailbox, clock, consumed, issued>>
    /\ UNCHANGED <<clienttable, lreq, outbox>>

\* ---------------------------------------------------------- role controller
\* the unique index of Roles: roleName
RoleInsertFails(rn) == \E i \in 1..Len(roles) : roles[i] = rn

\* createRole: db.role.create({roleName, description}), 201 with the role;
\* any rejection lands in the catch block
RoleCreate(s) ==
    /\ req[s].pc = "role_create"
    /\ LET r == req[s]
       IN IF RoleInsertFails(r.roleName)
          THEN /\ req' = [req EXCEPT ![s] = Respond(r, 500, "Error creating role")]
               /\ UNCHANGED roles
          ELSE /\ roles' = Append(roles, r.roleName)
               /\ req' = [req EXCEPT ![s] = Respond(r, 201, NoStr)]
    /\ UNCHANGED <<users, sessions, userRoles, mailbox, clock, consumed, issued>>
    /\ UNCHANGED <<clienttable, lreq, outbox>>

\* variant: the junction table carries no foreign key
AssignFailsPairOnly(uid, rid) == <<uid, rid>> \in userRoles

\* the constraints of UserRoles: both foreign keys and the unique pair
AssignFails(uid, rid) ==
    \/ uid \notin 1..Len(users)
    \/ rid \notin 1..Len(roles)
    \/ <<uid, rid>> \in userRoles

\* assignRoleToUser: db.user_roles.create({userId, roleId})
RoleAssign(s) ==
    /\ req[s].pc = "role_assign"
    /\ LET r == req[s]
       IN IF AssignFails(r.userId, r.roleId)
          THEN /\ req' = [req EXCEPT ![s] = Respond(r, 500, "Error assigning role")]
               /\ UNCHANGED userRoles
          ELSE /\ userRoles' = userRoles \cup {<<r.userId, r.roleId>>}
               /\ req' = [req EXCEPT ![s] = Respond(r, 200, "Role assigned successfully")]
    /\ UNCHANGED <<users, sessions, roles, mailbox, clock, consumed, issued>>
    /\ UNCHANGED <<clienttable, lreq, outbox>>

\* getUserRoles: db.user.findByPk(userId, {include: [db.role]})
RoleGet(s) ==
    /\ req[s].pc = "role_get"
    /\ LET r == req[s]
       IN req' = [req EXCEPT ![s] =
                    IF r.userId \notin 1..Len(users)
                    THEN Respond(r, 401, "User not found")
                    ELSE [Respond(r, 200, NoStr) EXCEPT !.outRoles = RolesOf(r.userId)]]
    /\ UNCHANGED <<users, sessions, roles, userRoles, mailbox, clock, consumed, issued>>
    /\ UNCHANGED <<clienttable, lreq, outbox>>

\* ------------------------------------------------------------------ signup
\* POST /signup up to the uniqueness probe: db.user.findOne by email
Signup(s, u, e, p) ==
    /\ Free(s)
    /\ Len(users) + Cardinality(InFlight("signup")) < MaxUsers
    /\ Cardinality(mailbox) + Cardinality(InFlight("signup")) < MaxMail
    /\ LET r == [Idle EXCEPT !.op = "signup", !.username = u, !.email = e, !.password = p]
       IN req' = [req EXCEPT ![s] =
                    IF FindByEmail(e) # NoId
                    THEN Respond(r, 400, "User already registered")
                    ELSE [r EXCEPT !.pc = "su_create"]]
    /\ UNCHANGED <<users, sessions, roles, userRoles, mailbox, clock, consumed, issued>>
    /\ UNCHANGED <<clienttable, lreq, outbox>>

\* variant: the username column carries no unique index
UserInsertFailsEmailOnly(u, e) ==
    \E i \in 1..Len(users) : users[i].email = e

\* the unique indexes of Users: username and email
UserInsertFails(u, e) ==
    \E i \in 1..Len(users) : users[i].username = u \/ users[i].email = e

\* bcrypt.hash, then db.user.create({..., emailVerified: false})
SuCreate(s) ==
    /\ req[s].pc = "su_create"
    /\ LET r == req[s]
       IN IF UserInsertFails(r.username, r.email)
          THEN /\ req' = [req EXCEPT ![s] = Respond(r, 500, "Internal server error")]
               /\ UNCHANGED users
          ELSE /\ users' = Append(users, [username |-> r.username, email |-> r.email,
                                          password |-> Hash(r.password),
                                          emailVerified |-> FALSE])
               /\ req' = [req EXCEPT ![s] =
                            [r EXCEPT !.pc = "su_role",
                                      !.snap = [id |-> Len(users) + 1, username |-> r.username,
                                                email |-> r.email, password |-> Hash(r.password),
                                                emailVerified |-> FALSE]]]
    /\ UNCHANGED <<sessions, roles, userRoles, mailbox, clock, consumed, issued>>
    /\ UNCHANGED <<clienttable, lreq, outbox>>

\* variant: the link is signed for the id alone
LinkWithoutEmail(snap, now) ==
    JwtSign("HS256", "secret", snap.id, NoStr, NoStr, "absent", now)

\* the verify-email action token: jwt.sign({id, email}, secret, {expiresIn: '1h'})
VerifyEmailToken(snap, now) ==
    JwtSign("HS256", "secret", snap.id, NoStr, snap.email, "absent", now)

\* the password-reset action token: jwt.sign({id, username}, secret, {expiresIn: '1h'})
ResetToken(snap, now) ==
    JwtSign("HS256", "secret", snap.id, snap.username, NoStr, "absent", now)

\* db.user_roles.create({userId, roleId: 1}) (role 1 must exist), then the
\* verification token is signed and the mail is handed to the transport
SuRole(s) ==
    /\ req[s].pc = "su_role"
    /\ LET r == req[s]
       IN IF Len(roles) < 1
          THEN /\ req' = [req EXCEPT ![s] = Respond(r, 500, "Internal server error")]
               /\ UNCHANGED <<userRoles, issued>>
          ELSE /\ userRoles' = userRoles \cup {<<r.snap.id, 1>>}
               /\ issued' = issued \cup {VerifyEmailToken(r.snap, clock)}
               /\ req' = [req EXCEPT ![s] =
                            [r EXCEPT !.pc = "mail", !.link = VerifyEmailToken(r.snap, clock)]]
    /\ UNCHANGED <<users, sessions, roles, mailbox, clock, consumed>>
    /\ UNCHANGED <<clienttable, lreq, outbox>>

\* the success response of each handler that ends by sending a mail
MailedStatus(op) == IF op = "signup" THEN 201 ELSE 200

MailedMsg(op) ==
    CASE op = "signup" -> "User registered successfully. Please check your email to verify your account."
      [] op = "resend" -> "Verification email resent successfully"
      [] op = "forgot" -> "Password reset link sent successfully"

\* the token embedded in the second argument of sendVerificationEmail(email,
\* link): the verification link in signup and resend; forgotPassword passes
\* (user.email, 'Password Reset', text), so the link parameter receives the
\* subject and the text that holds the reset link is dropped
MailLink(r) == IF r.op = "forgot" THEN NoToken ELSE r.link

\* await sendVerificationEmail(...): the mail 'Click the link to verify your
\* account: ${link}' is delivered (ok) or rejected by the transport, which
\* lands in the catch block
SendMail(s, ok) ==
    /\ req[s].pc = "mail"
    /\ LET r == req[s]
       IN IF ok
          THEN /\ mailbox' = mailbox \cup {[to |-> r.email, token |-> MailLink(r)]}
               /\ req' = [req EXCEPT ![s] = Respond(r, MailedStatus(r.op), MailedMsg(r.op))]
          ELSE /\ req' = [req EXCEPT ![s] = Respond(r, 500, "Internal server error")]
               /\ UNCHANGED mailbox
    /\ UNCHANGED <<users, sessions, roles, userRoles, clock, consumed, issued>>
    /\ UNCHANGED <<clienttable, lreq, outbox>>

\* ------------------------------------------------ resend / forgot password
\* POST /resend-verification: findOne by email, the already-verified test,
\* a fresh verify-email token
Resend(s, e) ==
    /\ Free(s)
    /\ Cardinality(mailbox) + Cardinality({x \in Slots : req[x].pc = "mail"}) < MaxMail
    /\ LET r == [Idle EXCEPT !.op = "resend", !.email = e]
           uid == FindByEmail(e)
       IN /\ req' = [req EXCEPT ![s] =
                    IF uid = NoId THEN Respond(r, 404, "User not found")
                    ELSE IF users[uid].emailVerified
                    THEN Respond(r, 400, "User is already verified")
                    ELSE [r EXCEPT !.pc = "mail", !.snap = Snap(uid),
                                   !.link = VerifyEmailToken(Snap(uid), clock)]]
          /\ issued' = IF uid # NoId /\ ~users[uid].emailVerified
                       THEN issued \cup {VerifyEmailToken(Snap(uid), clock)} ELSE issued
    /\ UNCHANGED <<users, sessions, roles, userRoles, mailbox, clock, consumed>>
    /\ UNCHANGED <<clienttable, lreq, outbox>>

\* POST /forgot-password: findOne by email, a reset token for {id, username}
Forgot(s, e) ==
    /\ Free(s)
    /\ Cardinality(mailbox) + Cardinality({x \in Slots : req[x].pc = "mail"}) < MaxMail
    /\ LET r == [Idle EXCEPT !.op = "forgot", !.email = e]
           uid == FindByEmail(e)
       IN /\ req' = [req EXCEPT ![s] =
                    IF uid = NoId THEN Respond(r, 404, "User not found")
                    ELSE [r EXCEPT !.pc = "mail", !.snap = Snap(uid),
                                   !.link = ResetToken(Snap(uid), clock)]]
          /\ issued' = IF uid # NoId THEN issued \cup {ResetToken(Snap(uid), clock)} ELSE issued
    /\ UNCHANGED <<users, sessions, roles, userRoles, mailbox, clock, consumed>>
    /\ UNCHANGED <<clienttable, lreq, outbox>>


\* ------------------------------------------------------------ verification
\* GET /verification/:token up to the lookup: jwt.verify with the secret, then
\* db.user.findOne({where: {id: decoded.id, email: decoded.email}}); an
\* undefined value in the where clause makes the query throw
Verification(s, t) ==
    /\ Free(s)
    /\ LET r == [Idle EXCEPT !.op = "verification", !.tok = t]
           uid == FindByIdEmail(t.id, t.email)
       IN req' = [req EXCEPT ![s] =
                    IF VerifyActionJwt(t, clock) # "ok"
                    THEN Respond(r, 400, "Invalid or expired verification link")
                    ELSE IF t.id = NoId \/ t.email = NoStr
                    THEN Respond(r, 400, "Invalid or expired verification link")
                    ELSE IF uid = NoId
                    THEN Respond(r, 400, "Invalid verification link")
                    ELSE [r EXCEPT !.pc = "ver_save", !.snap = Snap(uid)]]
    /\ UNCHANGED <<users, sessions, roles, userRoles, mailbox, clock, consumed, issued>>
    /\ UNCHANGED <<clienttable, lreq, outbox>>

\* user.emailVerified = true; await user.save(): save() writes the attributes
\* whose value differs from the one read, so a row read as verified issues no
\* UPDATE, and otherwise UPDATE Users SET emailVerified = true WHERE id
VerSave(s) ==
    /\ req[s].pc = "ver_save"
    /\ LET r == req[s]
       IN /\ users' = IF r.snap.emailVerified THEN users
                      ELSE [users EXCEPT ![r.snap.id].emailVerified = TRUE]
          /\ req' = [req EXCEPT ![s] = Respond(r, 200, "User verified successfully")]
          /\ consumed' = consumed \cup {<<r.tok.id, r.tok.email>>}
    /\ UNCHANGED <<sessions, roles, userRoles, mailbox, clock, issued>>
    /\ UNCHANGED <<clienttable, lreq, outbox>>

\* ----------------------------------------------------------- reset password
\* POST /reset-password/:token up to the lookup.  The controller takes the
\* token from the body (bt), not from the path segment (pt).
ResetPassword(s, pt, bt, p) ==
    /\ Free(s)
    /\ LET r == [Idle EXCEPT !.op = "reset", !.tok = pt, !.btok = bt, !.password = p]
           uid == FindByIdUsername(bt.id, bt.username)
       IN req' = [req EXCEPT ![s] =
                    IF VerifyActionJwt(bt, clock) # "ok"
                    THEN Respond(r, 400, "Invalid or expired token")
                    ELSE IF bt.id = NoId \/ bt.username = NoStr
                    THEN Respond(r, 400, "Invalid or expired token")
                    ELSE IF uid = NoId
                    THEN Respond(r, 400, "Invalid or expired token")
                    ELSE [r EXCEPT !.pc = "rs_save", !.snap = Snap(uid)]]
    /\ UNCHANGED <<users, sessions, roles, userRoles, mailbox, clock, consumed, issued>>
    /\ UNCHANGED <<clienttable, lreq, outbox>>

\* bcrypt.hash(newPassword), user.password = hash, user.save()
RsSave(s) ==
    /\ req[s].pc = "rs_save"
    /\ LET r == req[s]
       IN /\ users' = [users EXCEPT ![r.snap.id].password = Hash(r.password)]
          /\ req' = [req EXCEPT ![s] = Respond(r, 200, "Password reset successfully")]
    /\ UNCHANGED <<sessions, roles, userRoles, mailbox, clock, consumed, issued>>
    /\ UNCHANGED <<clienttable, lreq, outbox>>

\* ----------------------------------------------------------- profile update
\* PUT /user after verifyToken: db.user.findByPk(req.user.id)
UpdFind(s) ==
    /\ req[s].pc = "upd_find"
    /\ LET r == req[s]
       IN req' = [req EXCEPT ![s] =
                    IF r.ctx.id \notin 1..Len(users)
                    THEN Respond(r, 404, "User not found")
                    ELSE [r EXCEPT !.pc = "upd_save", !.snap = Snap(r.ctx.id)]]
    /\ UNCHANGED <<users, sessions, roles, userRoles, mailbox, clock, consumed, issued>>
    /\ UNCHANGED <<clienttable, lreq, outbox>>

\* the instance after the assignments of updateUser: field || user.field, and
\* emailVerified = false when an email was sent (name and phoneNumber carry
\* no constraint and no reader in the model and are left out)
Updated(snap, u, e) ==
    [snap EXCEPT !.username = IF u # NoStr THEN u ELSE snap.username,
                 !.email = IF e # NoStr THEN e ELSE snap.email,
                 !.emailVerified = IF e # NoStr THEN FALSE ELSE snap.emailVerified]

\* the unique indexes of Users on an UPDATE of row id
UserUpdateFails(id, new, snap) ==
    \E i \in 1..Len(users) :
        /\ i # id
        /\ \/ new.username # snap.username /\ users[i].username = new.username
           \/ new.email # snap.email /\ users[i].email = new.email

\* await user.save(): UPDATE of the attributes that differ from the row read
UpdSave(s) ==
    /\ req[s].pc = "upd_save"
    /\ LET r == req[s]
           snap == r.snap
           new == Updated(snap, r.username, r.email)
           row == users[snap.id]
       IN IF UserUpdateFails(snap.id, new, snap)
          THEN /\ req' = [req EXCEPT ![s] = Respond(r, 500, "Internal server error")]
               /\ UNCHANGED users
          ELSE /\ users' = [users EXCEPT ![snap.id] =
                      [row EXCEPT
                         !.username = IF new.username # snap.username THEN new.username ELSE row.username,
                         !.email = IF new.email # snap.email THEN new.email ELSE row.email,
                         !.emailVerified = IF new.emailVerified # snap.emailVerified
                                           THEN new.emailVerified ELSE row.emailVerified]]
               /\ req' = [req EXCEPT ![s] = Respond(r, 200, NoStr)]
    /\ UNCHANGED <<sessions, roles, userRoles, mailbox, clock, consumed, issued>>
    /\ UNCHANGED <<clienttable, lreq, outbox>>

\* ---------------------------------------------------------- change password
\* changePassword after verifyToken: db.user.findByPk(req.user.id), then
\* bcrypt.compare(currentPassword, user.password) against the row read
CpFind(s) ==
    /\ req[s].pc = "cp_find"
    /\ LET r == req[s]
       IN req' = [req EXCEPT ![s] =
                    IF r.ctx.id \notin 1..Len(users)
                    THEN Respond(r, 404, "User not found")
                    ELSE IF ~Compare(r.password, users[r.ctx.id].password)
                    THEN Respond(r, 400, "Current password is incorrect")
                    ELSE [r EXCEPT !.pc = "cp_save", !.snap = Snap(r.ctx.id)]]
    /\ UNCHANGED <<users, sessions, roles, userRoles, mailbox, clock, consumed, issued>>
    /\ UNCHANGED <<clienttable, lreq, outbox>>

\* bcrypt.hash(newPassword), user.password = hash, user.save()
CpSave(s) ==
    /\ req[s].pc = "cp_save"
    /\ LET r == req[s]
       IN /\ users' = [users EXCEPT ![r.snap.id].password = Hash(r.newPassword)]
          /\ req' = [req EXCEPT ![s] = Respond(r, 200, "Password changed successfully")]
    /\ UNCHANGED <<sessions, roles, userRoles, mailbox, clock, consumed, issued>>
    /\ UNCHANGED <<clienttable, lreq, outbox>>

\* -------------------------------------------------------- roleAuthorization
\* the request contexts the middleware can be handed: no req.user, a req.user
\* without role, a req.user with a list of role names
Contexts ==
    {NoCtx} \cup {[NoCtx EXCEPT !.present = TRUE]}
            \cup {[NoCtx EXCEPT !.present = TRUE, !.hasRole = TRUE, !.role = R] :
                    R \in SUBSET RoleNames}

\* one invocation of the middleware returned by roleAuthorization(allowed)
RoleCheck(s, allowed, ctx) ==
    /\ Free(s)
    /\ LET d == RoleAuthorization(allowed, ctx)
           r == [Idle EXCEPT !.op = "role", !.allowed = allowed, !.ctx = ctx]
       IN req' = [req EXCEPT ![s] = [Respond(r, d.status, d.msg) EXCEPT !.nexted = d.next]]
    /\ UNCHANGED <<users, sessions, roles, userRoles, mailbox, clock, consumed, issued>>
    /\ UNCHANGED <<clienttable, lreq, outbox>>

\* ------------------------------------------------------------------- clock
HourTicks == OneHour * TicksPerSec

\* the instants the model explores: the first ticks after start and the
\* ticks around one hour later
ClockOk(c) == c <= MaxTick \/ (c >= HourTicks - TicksPerSec /\ c <= HourTicks + MaxTick)

\* ====================================================== the legacy program
\* src/index.js with src/routes/{register,login,verify,userresponse}.js and
\* src/modules/functions.js, over public.clienttable.  Every response is sent
\* with res.send: the statusCode is a field of the body.

\* the client addresses requestIp.getClientIp(req) returns
Addrs == {"10.0.0.1", "10.0.0.2"}

OneYear == 365 * 86400
YearTicks == OneYear * TicksPerSec

\* JavaScript values told apart by type, as === does
JsBool(b) == <<"boolean", BoolClaim(b)>>
JsString(str) == <<"string", str>>
StrictEquals(a, b) == a = b

\* config.jwt_algo, config.jwt_temp_algo_name, config.jwt_temp_algo: the
\* header jsonwebtoken writes for the long-lived token, the algorithm of the
\* temporary token and its header (a header is named by its algorithm)
jwt_algo == "HS256"
jwt_temp_algo_name == "RS256"
jwt_temp_algo == "RS256"

\* A legacy token: the first segment as it travels (header), the header the
\* signature was computed over (signed), the signing key, the payload {a, v,
\* u}, iat and exp in whole seconds
NoLegacyToken == [header |-> "none", signed |-> "none", key |-> "none", a |-> NoId,
                  v |-> JsBool(FALSE), u |-> NoStr, iat |-> 0, exp |-> 0]

NoRow == [c_id |-> NoId, email |-> NoStr, hash |-> Hash(NoStr),
          varified |-> JsBool(FALSE), password_expiry |-> FALSE]

\* a row of clienttable as a query returns it: the pg driver hands a boolean
\* column over as a JavaScript boolean
Row(i) == [c_id |-> i, email |-> clienttable[i].email, hash |-> clienttable[i].hash,
           varified |-> JsBool(clienttable[i].varified),
           password_expiry |-> clienttable[i].password_expiry]

\* data = {a: c_id, v: varified, u: email}
TokenData(row) == [a |-> row.c_id, v |-> row.varified, u |-> row.email]

\* jwt.sign(data, key, {algorithm, expiresIn}) at clock value now
LegacySign(alg, key, data, ttl, now) ==
    [header |-> alg, signed |-> alg, key |-> key, a |-> data.a, v |-> data.v, u |-> data.u,
     iat |-> Seconds(now), exp |-> Seconds(now) + ttl]

\* token.replace(from, to): String.replace rewrites the first occurrence, and
\* the token starts with its header
ReplaceHeader(t, from, to) == IF t.header = from THEN [t EXCEPT !.header = to] ELSE t

\* variant: the signing secret is one value for every client
ClientSecretShared(addr) == "0.0.0.0"

\* const secret = requestIp.getClientIp(req)
ClientSecret(addr) == addr

\* makeValidAccessToken(data, req): HS256 (the default) under the client
\* address, 365 days, the header replaced by "lt"
makeValidAccessToken(data, addr, now) ==
    LET token == LegacySign("HS256", ClientSecret(addr), data, OneYear, now)
    IN ReplaceHeader(token, token.header, "lt")

\* makeValidTempAccessToken(data): signed with key/private.key, one hour, the
\* header replaced by "tt"
makeValidTempAccessToken(data, now) ==
    LET token == LegacySign(jwt_temp_algo_name, "private", data, OneHour, now)
    IN ReplaceHeader(token, token.header, "tt")

\* jwt.verify(token, key) without options: the first segment must be a JWT
\* header, a string secret admits HS256 and a public key RS256, the
\* signature covers the header, and exp is checked against the clock
LegacyJwtVerify(t, vkey, now) ==
    IF t.header \notin {"HS256", "RS256"} THEN "jwt malformed"
    ELSE IF (vkey = "public") # (t.header = "RS256") THEN "invalid algorithm"
    ELSE IF t.signed # t.header THEN "invalid signature"
    ELSE IF ~(IF vkey = "public" THEN t.key = "private" ELSE t.key = vkey)
    THEN "invalid signature"
    ELSE IF Seconds(now) >= t.exp THEN "jwt expired"
    ELSE "ok"

\* ValidAccessToken(data, req): the error it rejects with, or "ok"
ValidAccessToken(t, addr, now) ==
    IF t = NoLegacyToken THEN "access_token_not_found"
    ELSE IF LegacyJwtVerify(ReplaceHeader(t, "lt", jwt_algo), ClientSecret(addr), now) # "ok"
    THEN "access_token_error"
    ELSE "ok"

\* validateTempAccessToken(data)
validateTempAccessToken(t, now) ==
    IF t = NoLegacyToken THEN "access_token_not_found"
    ELSE IF LegacyJwtVerify(ReplaceHeader(t, "tt", jwt_temp_algo), "public", now) # "ok"
    THEN "access_token_error"
    ELSE "ok"

\* a legacy request: the route, the handler's position, the client address,
\* the fields sent, the token presented, the row the query returned, the
\* mail being sent, and the body of the response (statusCode, error, token)
LegacyIdle == [op |-> "idle", pc |-> "idle", addr |-> NoStr, email |-> NoStr,
               password |-> NoStr, tok |-> NoLegacyToken, row |-> NoRow,
               mail |-> NoStr, statusCode |-> 0, error |-> NoStr, out |-> NoLegacyToken]

LegacyFree(s) == lreq[s].pc \in {"idle", "done"}

\* res.send({statusCode, error, ...})
Send(r, statusCode, error) ==
    [r EXCEPT !.pc = "done", !.statusCode = statusCode, !.error = error, !.row = NoRow]

\* SELECT ... FROM clienttable where email ilike $1: rows[0]
FindClient(e) ==
    IF \E i \in 1..Len(clienttable) : clienttable[i].email = e
    THEN CHOOSE i \in 1..Len(clienttable) :
            /\ clienttable[i].email = e
            /\ \A j \in 1..(i - 1) : clienttable[j].email # e
    ELSE NoId

\* validateLoginData: both fields present (the passwords and addresses the
\* model sends pass validatePassword(6) and validateEmail)
validateLoginData(e, p) == IF p = NoStr \/ e = NoStr THEN "email_not_found" ELSE "ok"

\* POST /login up to the query by email
LegacyLogin(s, addr, e, p) ==
    /\ LegacyFree(s)
    /\ LET r == [LegacyIdle EXCEPT !.op = "login", !.addr = addr, !.email = e, !.password = p]
           i == FindClient(e)
       IN lreq' = [lreq EXCEPT ![s] =
                    IF validateLoginData(e, p) # "ok" THEN Send(r, 500, validateLoginData(e, p))
                    ELSE IF i = NoId THEN Send(r, 500, "user_not_found")
                    ELSE [r EXCEPT !.pc = "login_hash", !.row = Row(i)]]
    /\ UNCHANGED <<clienttable, outbox>>
    /\ UNCHANGED <<users, sessions, roles, userRoles, mailbox, clock, req, consumed, issued>>

\* result.rows[0].varified === "false"
VarifiedIsFalse(row) == StrictEquals(row.varified, JsString("false"))

\* the rest of login on the row read: an expired password gets a temporary
\* token mailed; otherwise the pbkdf2 hash is compared, and a match gets the
\* temporary token mailed when varified === "false" and the long-lived token
\* otherwise
LegacyLoginHash(s) ==
    /\ lreq[s].pc = "login_hash"
    /\ LET r == lreq[s]
           data == TokenData(r.row)
       IN lreq' = [lreq EXCEPT ![s] =
                    IF r.row.password_expiry
                    THEN [r EXCEPT !.pc = "mail", !.mail = "forgotpassword",
                                   !.out = makeValidTempAccessToken(data, clock)]
                    ELSE IF ~Compare(r.password, r.row.hash)
                    THEN Send(r, 500, "password_wrong")
                    ELSE IF VarifiedIsFalse(r.row)
                    THEN [r EXCEPT !.pc = "mail", !.mail = "verify",
                                   !.out = makeValidTempAccessToken(data, clock)]
                    ELSE [Send(r, 200, NoStr) EXCEPT
                             !.out = makeValidAccessToken(data, r.addr, clock)]]
    /\ UNCHANGED <<clienttable, outbox>>
    /\ UNCHANGED <<users, sessions, roles, userRoles, mailbox, clock, req, consumed, issued>>

\* fun.sendMail(email, subject, "", path, token) resolves or rejects; the
\* expired-password branch answers 500 password_expire without the token
LegacySendMail(s, ok) ==
    /\ lreq[s].pc = "mail"
    /\ Cardinality(outbox) < MaxMail
    /\ LET r == lreq[s]
       IN IF ok
          THEN /\ outbox' = outbox \cup {[to |-> r.row.email, path |-> r.mail, token |-> r.out]}
               /\ lreq' = [lreq EXCEPT ![s] =
                             IF r.mail = "forgotpassword"
                             THEN [Send(r, 500, "password_expire") EXCEPT !.out = NoLegacyToken]
                             ELSE Send(r, 200, NoStr)]
          ELSE /\ lreq' = [lreq EXCEPT ![s] =
                             [Send(r, 500, "email_no_send") EXCEPT !.out = NoLegacyToken]]
               /\ UNCHANGED outbox
    /\ UNCHANGED clienttable
    /\ UNCHANGED <<users, sessions, roles, userRoles, mailbox, clock, req, consumed, issued>>

\* GET /verify up to the query by c_id: validateTempAccessToken, the row, and
\* varified === false
LegacyVerify(s, t) ==
    /\ LegacyFree(s)
    /\ LET r == [LegacyIdle EXCEPT !.op = "verify", !.tok = t]
           v == validateTempAccessToken(t, clock)
       IN lreq' = [lreq EXCEPT ![s] =
                    IF v # "ok" THEN Send(r, 500, v)
                    ELSE IF t.a \notin 1..Len(clienttable) THEN Send(r, 500, "user_found")
                    ELSE IF StrictEquals(Row(t.a).varified, JsBool(FALSE))
                    THEN [r EXCEPT !.pc = "verify_update", !.row = Row(t.a)]
                    ELSE Send(r, 500, "email_verified")]
    /\ UNCHANGED <<clienttable, outbox>>
    /\ UNCHANGED <<users, sessions, roles, userRoles, mailbox, clock, req, consumed, issued>>

\* UPDATE clienttable SET varified = 'true' where c_id = $1
LegacyVerifyUpdate(s) ==
    /\ lreq[s].pc = "verify_update"
    /\ clienttable' = [clienttable EXCEPT ![lreq[s].row.c_id].varified = TRUE]
    /\ lreq' = [lreq EXCEPT ![s] = Send(lreq[s], 200, NoStr)]
    /\ UNCHANGED outbox
    /\ UNCHANGED <<users, sessions, roles, userRoles, mailbox, clock, req, consumed, issued>>

\* GET /userresponse up to the query by c_id: ValidAccessToken(req.query, req)
UserResponse(s, addr, t) ==
    /\ LegacyFree(s)
    /\ LET r == [LegacyIdle EXCEPT !.op = "userresponse", !.addr = addr, !.tok = t]
           v == ValidAccessToken(t, addr, clock)
       IN lreq' = [lreq EXCEPT ![s] =
                    IF v # "ok" THEN Send(r, 500, v) ELSE [r EXCEPT !.pc = "userresponse_query"]]
    /\ UNCHANGED <<clienttable, outbox>>
    /\ UNCHANGED <<users, sessions, roles, userRoles, mailbox, clock, req, consumed, issued>>

\* the row by decoded.a: the profile unless varified !== "false" fails
UserResponseQuery(s) ==
    /\ lreq[s].pc = "userresponse_query"
    /\ LET r == lreq[s]
       IN lreq' = [lreq EXCEPT ![s] =
                    IF r.tok.a \notin 1..Len(clienttable) THEN Send(r, 500, "user_found")
                    ELSE IF ~VarifiedIsFalse(Row(r.tok.a)) THEN Send(r, 200, NoStr)
                    ELSE Send(r, 500, "email_not_verified")]
    /\ UNCHANGED <<clienttable, outbox>>
    /\ UNCHANGED <<users, sessions, roles, userRoles, mailbox, clock, req, consumed, issued>>

\* a year passes
TickYear ==
    /\ clock <= MaxTick
    /\ clock' = clock + YearTicks
    /\ UNCHANGED <<clienttable, lreq, outbox>>
    /\ UNCHANGED <<users, sessions, roles, userRoles, mailbox, req, consumed, issued>>

\* the tokens the legacy program has handed out: in a response or in a mail
LegacyHanded ==
    ({lreq[s].out : s \in Slots} \cup {m.token : m \in outbox}) \ {NoLegacyToken}

\* clienttable as register and verify leave it: alice verified, bob and
\* carol not yet, and carol's password marked as expired
LegacyInit ==
    /\ clienttable = << [email |-> "a@x.com", hash |-> Hash("secret1"),
                         varified |-> TRUE, password_expiry |-> FALSE],
                        [email |-> "b@x.com", hash |-> Hash("secret2"),
                         varified |-> FALSE, password_expiry |-> FALSE],
                        [email |-> "c@x.com", hash |-> Hash("secret1"),
                         varified |-> FALSE, password_expiry |-> TRUE] >>
    /\ lreq = [s \in Slots |-> LegacyIdle]
    /\ outbox = {}

\* the names initial() seeds, in the order of its two awaited creates
SeedRoles == <<"user", "admin">>

\* one db.role.create of initial(), which app.js starts when sync({force:
\* true}) resolves; app.listen and the routes do not wait for it
Initial ==
    /\ Len(roles) < Len(SeedRoles)
    /\ roles = SubSeq(SeedRoles, 1, Len(roles))
    /\ roles' = Append(roles, SeedRoles[Len(roles) + 1])
    /\ UNCHANGED <<users, sessions, userRoles, mailbox, clock, req, consumed, issued>>
    /\ UNCHANGED <<clienttable, lreq, outbox>>

Tick ==
    /\ ClockOk(clock + 1)
    /\ clock' = clock + 1
    /\ UNCHANGED <<users, sessions, roles, userRoles, mailbox, req, consumed, issued>>
    /\ UNCHANGED <<clienttable, lreq, outbox>>

TickHour ==
    /\ clock <= MaxTick
    /\ clock' = clock + HourTicks - TicksPerSec
    /\ ClockOk(clock')
    /\ UNCHANGED <<users, sessions, roles, userRoles, mailbox, req, consumed, issued>>
    /\ UNCHANGED <<clienttable, lreq, outbox>>

\* ------------------------------------------------------- what clients hold
\* Tokens a client can present: those the server handed out (login responses
\* are exactly the rows of Sessions, verification links are in the mails),
\* the action tokens the server has signed, tokens of an earlier run of the
\* server (the tables are dropped at every start, the keys are not), and
\* altered copies of these.
StaleTokens ==
    {LoginToken([NoSnap EXCEPT !.id = 1, !.username = "alice", !.emailVerified = v], 0) :
        v \in BOOLEAN}

Handed == ({x.token : x \in sessions} \cup {m.token : m \in mailbox}) \ {NoToken}

\* a copy with a signature that checks under no key, and the same claims
\* re-signed as HS256 with the (public) RSA key as the HMAC secret
Altered(t) == {[t EXCEPT !.key = "forged"], [t EXCEPT !.alg = "HS256", !.key = "public"]}

\* action tokens of an earlier run, signed for identities that are not stored
\* now: id 2 with the email that now belongs to id 1, and id 2 under a
\* username nobody holds
StaleLinks ==
    {VerifyEmailToken([NoSnap EXCEPT !.id = 2, !.email = "a@x.com"], 0),
     ResetToken([NoSnap EXCEPT !.id = 2, !.username = "carol"], 0)}

Presentable ==
    Handed \cup issued \cup StaleTokens \cup StaleLinks
           \cup UNION {Altered(t) : t \in Handed \cup issued}

\* tokens signed with the private key by another issuer, whose payload lacks
\* id, username or both
ClaimlessTokens ==
    {JwtSign("RS256", "private", c[1], c[2], NoStr, "absent", 0) :
        c \in {<<NoId, NoStr>>, <<1, NoStr>>, <<NoId, "alice">>}}

\* --------------------------------------------------------------- behaviours
\* db.sequelize.sync({force: true}) then initial(): empty tables, two roles
Init ==
    /\ users = <<>>
    /\ sessions = {}
    /\ roles = <<"user", "admin">>
    /\ userRoles = {}
    /\ mailbox = {}
    /\ clock = 0
    /\ req = [s \in Slots |-> Idle]
    /\ consumed = {}
    /\ issued = {}
    /\ LegacyInit

LoginNames == Usernames \cup {NoStr}
LoginPasswords == Passwords \cup {NoStr}

Next ==
    \/ Initial
    \/ \E s \in Slots, a \in Addrs, e \in Emails \cup {NoStr}, p \in LoginPasswords :
          LegacyLogin(s, a, e, p)
    \/ \E s \in Slots : LegacyLoginHash(s)
    \/ \E s \in Slots, ok \in BOOLEAN : LegacySendMail(s, ok)
    \/ \E s \in Slots, t \in LegacyHanded \cup {NoLegacyToken} : LegacyVerify(s, t)
    \/ \E s \in Slots : LegacyVerifyUpdate(s)
    \/ \E s \in Slots, a \in Addrs, t \in LegacyHanded \cup {NoLegacyToken} :
          UserResponse(s, a, t)
    \/ \E s \in Slots : UserResponseQuery(s)
    \/ TickYear
    \/ \E s \in Slots, u \in LoginNames, e \in Emails \cup {NoStr}, p \in LoginPasswords :
          Login(s, u, e, p)
    \/ \E s \in Slots, t \in Presentable \cup {NoToken}, cur \in Passwords, new \in Passwords :
          StartChange(s, t, cur, new)
    \/ \E s \in Slots : CpFind(s)
    \/ \E s \in Slots : CpSave(s)
    \/ \E s \in Slots : LoginCreate(s)
    \/ \E s \in Slots : LoginCreateFault(s)
    \/ \E s \in Slots : VtSessionFault(s)
    \/ \E s \in Slots : VtUserFault(s)
    \/ \E s \in Slots, op \in AuthOps, t \in Presentable, answered \in BOOLEAN :
          VtKeyFault(s, op, t, answered)
    \/ \E s \in Slots, op \in AuthOps, t \in Presentable \cup {NoToken},
          u \in Usernames \cup {NoStr}, e \in Emails \cup {NoStr} : StartAuth(s, op, t, u, e)
    \/ \E s \in Slots, op \in RoleOps, t \in Presentable \cup ClaimlessTokens \cup {NoToken},
          rn \in RoleNames \cup {"editor"}, uid \in 1..MaxUsers, rid \in 1..MaxRoles :
          StartRole(s, op, t, rn, uid, rid)
    \/ \E s \in Slots : VtSession(s)
    \/ \E s \in Slots : VtUser(s)
    \/ \E s \in Slots : LogoutUpdate(s)
    \/ \E s \in Slots : RoleCreate(s)
    \/ \E s \in Slots : RoleAssign(s)
    \/ \E s \in Slots : RoleGet(s)
    \/ \E s \in Slots, u \in Usernames, e \in Emails, p \in Passwords : Signup(s, u, e, p)
    \/ \E s \in Slots : SuCreate(s)
    \/ \E s \in Slots : SuRole(s)
    \/ \E s \in Slots, ok \in BOOLEAN : SendMail(s, ok)
    \/ \E s \in Slots, e \in Emails : Resend(s, e)
    \/ \E s \in Slots, e \in Emails : Forgot(s, e)
    \/ \E s \in Slots, t \in Presentable : Verification(s, t)
    \/ \E s \in Slots : VerSave(s)
    \/ \E s \in Slots, pt \in Presentable, bt \in Presentable \cup {NoToken}, p \in Passwords :
          ResetPassword(s, pt, bt, p)
    \/ \E s \in Slots : RsSave(s)
    \/ \E s \in Slots : UpdFind(s)
    \/ \E s \in Slots : UpdSave(s)
    \/ \E s \in Slots, allowed \in SUBSET RoleNames, ctx \in Contexts : RoleCheck(s, allowed, ctx)
    \/ Tick
    \/ TickHour

Spec == Init /\ [][Next]_vars


\* A state the server is in after two signups and one verification: alice
\* (verified) and bob (not verified), each holding the default role.
InitRegistered ==
    /\ users = << [username |-> "alice", email |-> "a@x.com",
                   password |-> Hash("secret1"), emailVerified |-> TRUE],
                  [username |-> "bob", email |-> "b@x.com",
                   password |-> Hash("secret2"), emailVerified |-> FALSE] >>
    /\ sessions = {}
    /\ roles = <<"user", "admin">>
    /\ userRoles = {<<1, 1>>, <<2, 1>>}
    /\ mailbox = {}
    /\ clock = 0
    /\ req = [s \in Slots |-> Idle]
    /\ consumed = {<<1, "a@x.com">>}
    /\ issued = {}
    /\ LegacyInit

\* the logins tried: alice's own password, the same password for bob (a
\* mismatch) and for carol (no such identity), and a missing password
SessionLogins ==
    {<<"alice", "secret1">>, <<"bob", "secret1">>, <<"carol", "secret1">>, <<"alice", NoStr>>}

\* login, the session check and logout, concurrently
NextSession ==
    \/ \E s \in Slots, c \in SessionLogins : Login(s, c[1], NoStr, c[2])
    \/ \E s \in Slots : LoginCreate(s)
    \/ \E s \in Slots, op \in {"verify", "logout"}, t \in Handed \cup StaleTokens :
          StartAuth(s, op, t, NoStr, NoStr)
    \/ \E s \in Slots : VtSession(s)
    \/ \E s \in Slots : VtUser(s)
    \/ \E s \in Slots : LogoutUpdate(s)
    \/ Tick

SpecSession == InitRegistered /\ [][NextSession]_vars


\* signup, verification-consume and profile update, concurrently, from the
\* empty tables (login supplies the bearer token of PUT /user)
NextVerify ==
    \/ \E s \in Slots : Signup(s, "alice", "a@x.com", "secret1")
    \/ \E s \in Slots : SuCreate(s)
    \/ \E s \in Slots : SuRole(s)
    \/ \E s \in Slots : SendMail(s, TRUE)
    \/ \E s \in Slots : Login(s, "alice", NoStr, "secret1")
    \/ \E s \in Slots : LoginCreate(s)
    \/ \E s \in Slots, t \in Handed, e \in Emails \cup {NoStr} :
          StartAuth(s, "updateUser", t, NoStr, e)
    \/ \E s \in Slots : VtSession(s)
    \/ \E s \in Slots : VtUser(s)
    \/ \E s \in Slots : UpdFind(s)
    \/ \E s \in Slots : UpdSave(s)
    \/ \E s \in Slots, t \in Handed : Verification(s, t)
    \/ \E s \in Slots : VerSave(s)

SpecVerify == Init /\ [][NextVerify]_vars

\* every consumer of a token, one request at a time, across the hour: login
\* (alice), forgot-password (alice) and resend-verification (bob) issue tokens
\* in the first ticks; verifyToken, verification-consume and reset-password
\* are handed every presentable token at every instant
NextToken ==
    \/ clock <= MaxTick /\ Login(1, "alice", NoStr, "secret1")
    \/ LoginCreate(1)
    \/ clock <= MaxTick /\ Forgot(1, "a@x.com")
    \/ clock <= MaxTick /\ Resend(1, "b@x.com")
    \/ SendMail(1, TRUE)
    \/ \E t \in Presentable : StartAuth(1, "verify", t, NoStr, NoStr)
    \/ VtSession(1)
    \/ VtUser(1)
    \/ \E t \in Presentable : Verification(1, t)
    \/ VerSave(1)
    \/ \E t \in Presentable : ResetPassword(1, NoToken, t, "secret1")
    \/ RsSave(1)
    \/ Tick
    \/ TickHour

SpecToken == InitRegistered /\ [][NextToken]_vars

\* the action-token flows: forgot-password for alice and resend-verification
\* for bob over a transport that delivers or fails, one at a time, at the
\* start; and, concurrently and at later instants, verification-consume of
\* every link signed so far and reset-password called as the route is
\* documented (the token as the path segment only) and with the token
\* repeated in the body
NextAction ==
    \/ clock = 0 /\ Forgot(1, "a@x.com")
    \/ clock = 0 /\ Resend(1, "b@x.com")
    \/ \E ok \in BOOLEAN : SendMail(1, ok)
    \/ \E s \in Slots, t \in issued : Verification(s, t)
    \/ \E s \in Slots : VerSave(s)
    \/ \E s \in Slots, t \in issued : \E bt \in {NoToken, t} : ResetPassword(s, t, bt, "secret2")
    \/ \E s \in Slots : RsSave(s)
    \/ issued # {} /\ clock < MaxTick /\ Tick

SpecAction == InitRegistered /\ [][NextAction]_vars

\* login by username and by email, and change-password, concurrently, for
\* alice
NextAccount ==
    \/ \E c \in {<<"alice", NoStr>>, <<NoStr, "a@x.com">>} : Login(1, c[1], c[2], "secret1")
    \/ LoginCreate(1)
    \/ \E s \in Slots, t \in Handed, cur \in Passwords, new \in Passwords :
          StartChange(s, t, cur, new)
    \/ \E s \in Slots : VtSession(s)
    \/ \E s \in Slots : VtUser(s)
    \/ \E s \in Slots : CpFind(s)
    \/ \E s \in Slots : CpSave(s)

SpecAccount == InitRegistered /\ [][NextAccount]_vars

\* signup (one username, two emails), resend-verification and
\* verification-consume, concurrently, from the empty tables, over a transport
\* that delivers or fails
NextSignup ==
    \/ \E s \in Slots, e \in Emails : Signup(s, "alice", e, "secret1")
    \/ \E s \in Slots : SuCreate(s)
    \/ \E s \in Slots : SuRole(s)
    \/ \E s \in Slots, ok \in BOOLEAN : SendMail(s, ok)
    \/ \E s \in Slots : Resend(s, "a@x.com")
    \/ \E s \in Slots, t \in Handed : Verification(s, t)
    \/ \E s \in Slots : VerSave(s)

SpecSignup == Init /\ [][NextSignup]_vars

\* A state the server is in once an operator has granted alice the role
\* 'admin' in the database (no route grants it before an admin exists)
InitAdmin ==
    /\ users = << [username |-> "alice", email |-> "a@x.com",
                   password |-> Hash("secret1"), emailVerified |-> TRUE],
                  [username |-> "bob", email |-> "b@x.com",
                   password |-> Hash("secret2"), emailVerified |-> FALSE] >>
    /\ sessions = {}
    /\ roles = <<"user", "admin">>
    /\ userRoles = {<<1, 1>>, <<1, 2>>, <<2, 1>>}
    /\ mailbox = {}
    /\ clock = 0
    /\ req = [s \in Slots |-> Idle]
    /\ consumed = {<<1, "a@x.com">>}
    /\ issued = {}
    /\ LegacyInit

\* the role routes, concurrently, called by the admin alice and by bob (who
\* holds 'admin' once alice has assigned it), and POST /roles called with a
\* payload lacking claims; the logins that supply the tokens come one at a
\* time
NextAdmin ==
    \/ \E c \in {<<"alice", "secret1">>, <<"bob", "secret2">>} : Login(1, c[1], NoStr, c[2])
    \/ LoginCreate(1)
    \/ \E s \in Slots, op \in RoleOps, t \in Handed : StartRole(s, op, t, "editor", 2, 2)
    \/ \E t \in ClaimlessTokens : StartRole(1, "createRole", t, "editor", 2, 2)
    \/ \E s \in Slots : VtSession(s)
    \/ \E s \in Slots : VtUser(s)
    \/ \E s \in Slots : RoleCreate(s)
    \/ \E s \in Slots : RoleAssign(s)
    \/ \E s \in Slots : RoleGet(s)

SpecAdmin == InitAdmin /\ [][NextAdmin]_vars

\* assign-role and get-user-roles called by the admin alice, concurrently, for
\* bob and for an identity id that is not stored (3), with the role 'admin'
\* and with a role id (3) that is not stored until a create-role request has
\* added it
NextAssign ==
    \/ Login(1, "alice", NoStr, "secret1")
    \/ LoginCreate(1)
    \/ \E s \in Slots, t \in Handed, uid \in {2, 3}, rid \in {2, 3} :
          StartRole(s, "assignRole", t, NoStr, uid, rid)
    \/ \E t \in Handed : StartRole(1, "createRole", t, "editor", NoId, NoId)
    \/ \E s \in Slots, t \in Handed, uid \in {2, 3} :
          StartRole(s, "getUserRoles", t, NoStr, uid, NoId)
    \/ \E s \in Slots : VtSession(s)
    \/ \E s \in Slots : VtUser(s)
    \/ \E s \in Slots : RoleCreate(s)
    \/ \E s \in Slots : RoleAssign(s)
    \/ \E s \in Slots : RoleGet(s)

SpecAssign == InitAdmin /\ [][NextAssign]_vars

\* the logins that are turned away: alice's password for bob (a mismatch)
\* and for carol (no such identity)
BadLogins == {<<"bob", "secret1">>, <<"carol", "secret1">>}

\* login and logout, concurrently, with the sessions of two identities in the
\* store: alice and bob log in with their own passwords, one login at a time
NextLogout ==
    \/ \E c \in {<<"alice", "secret1">>, <<"bob", "secret2">>} : Login(1, c[1], NoStr, c[2])
    \/ \E s \in Slots, c \in BadLogins : Login(s, c[1], NoStr, c[2])
    \/ LoginCreate(1)
    \/ \E s \in Slots, t \in Handed : StartAuth(s, "logout", t, NoStr, NoStr)
    \/ \E s \in Slots : VtSession(s)
    \/ \E s \in Slots : VtUser(s)
    \/ \E s \in Slots : LogoutUpdate(s)
    \/ clock < MaxTick /\ Tick

SpecLogout == InitRegistered /\ [][NextLogout]_vars

\* login, the session check and logout, concurrently, over a database whose
\* queries may be rejected: the insert of login and the two lookups of
\* verifyToken
NextFault ==
    \/ \E s \in Slots : Login(s, "alice", NoStr, "secret1")
    \/ \E s \in Slots : LoginCreate(s)
    \/ \E s \in Slots : LoginCreateFault(s)
    \/ \E s \in Slots, op \in {"verify", "logout"}, t \in Handed :
          StartAuth(s, op, t, NoStr, NoStr)
    \/ \E s \in Slots : VtSession(s)
    \/ \E s \in Slots : VtSessionFault(s)
    \/ \E s \in Slots : VtUser(s)
    \/ \E s \in Slots : VtUserFault(s)
    \/ \E s \in Slots : LogoutUpdate(s)
    \/ clock < MaxTick /\ Tick

SpecFault == InitRegistered /\ [][NextFault]_vars

\* every writer of the password and its reader, from the empty tables: one
\* signup of alice, forgot-password and reset-password (the token in the
\* body), change-password, and logins with either password; signup, forgot
\* and login come one at a time, the other requests concurrently
NextPassword ==
    \/ \E p \in Passwords : Signup(1, "alice", "a@x.com", p)
    \/ SuCreate(1)
    \/ SuRole(1)
    \/ Forgot(1, "a@x.com")
    \/ SendMail(1, TRUE)
    \/ \E p \in Passwords : Login(1, "alice", NoStr, p)
    \/ LoginCreate(1)
    \/ \E s \in Slots, t \in issued, p \in Passwords : ResetPassword(s, NoToken, t, p)
    \/ \E s \in Slots : RsSave(s)
    \/ \E s \in Slots, t \in Handed, cur \in Passwords, new \in Passwords :
          StartChange(s, t, cur, new)
    \/ \E s \in Slots : VtSession(s)
    \/ \E s \in Slots : VtUser(s)
    \/ \E s \in Slots : CpFind(s)
    \/ \E s \in Slots : CpSave(s)

SpecPassword == Init /\ [][NextPassword]_vars

\* the bearer-protected routes called with and without a token and with
\* bodies that pass and that fail the route's validators: the role routes by
\* the admin alice, and /verify
NextGate ==
    \/ Login(1, "alice", NoStr, "secret1")
    \/ LoginCreate(1)
    \/ \E s \in Slots, op \in RoleOps, t \in Handed \cup {NoToken},
          rn \in {NoStr, "editor"}, id \in {NoId, 2} : StartRole(s, op, t, rn, id, id)
    \/ \E s \in Slots, t \in Handed \cup {NoToken} : StartAuth(s, "verify", t, NoStr, NoStr)
    \/ \E s \in Slots : VtSession(s)
    \/ \E s \in Slots : VtUser(s)
    \/ \E s \in Slots : RoleCreate(s)
    \/ \E s \in Slots : RoleAssign(s)
    \/ \E s \in Slots : RoleGet(s)

SpecGate == InitAdmin /\ [][NextGate]_vars

\* verifyToken on /verify with every collaborator able to fail: the load of
\* the public key, the session lookup and the identity lookup
NextKey ==
    \/ Login(1, "alice", NoStr, "secret1")
    \/ LoginCreate(1)
    \/ \E s \in Slots, t \in Handed \cup StaleTokens \cup {NoToken} :
          StartAuth(s, "verify", t, NoStr, NoStr)
    \/ \E s \in Slots, t \in Handed, answered \in BOOLEAN : VtKeyFault(s, "verify", t, answered)
    \/ \E s \in Slots : VtSession(s)
    \/ \E s \in Slots : VtSessionFault(s)
    \/ \E s \in Slots : VtUser(s)
    \/ \E s \in Slots : VtUserFault(s)
    \/ clock < MaxTick /\ Tick

SpecKey == InitRegistered /\ [][NextKey]_vars

\* a change of username against the tokens signed before it: alice logs in
\* and asks for a reset link at the start; then, concurrently, profile
\* updates that rename her to carol and back, /verify with her session token
\* and reset-password with her link (the token in the body)
NextRename ==
    \/ Login(1, "alice", NoStr, "secret1")
    \/ LoginCreate(1)
    \/ issued = {} /\ Forgot(1, "a@x.com")
    \/ SendMail(1, TRUE)
    \/ \E s \in Slots, t \in Handed : StartAuth(s, "verify", t, NoStr, NoStr)
    \/ \E s \in Slots, t \in Handed, u \in {"carol", "alice"} :
          StartAuth(s, "updateUser", t, u, NoStr)
    \/ \E s \in Slots : VtSession(s)
    \/ \E s \in Slots : VtUser(s)
    \/ \E s \in Slots : UpdFind(s)
    \/ \E s \in Slots : UpdSave(s)
    \/ \E s \in Slots, t \in issued : ResetPassword(s, NoToken, t, "secret2")
    \/ \E s \in Slots : RsSave(s)

SpecRename == InitRegistered /\ [][NextRename]_vars

\* alice's password has been changed since the start
PasswordChanged == users[1].password # Hash("secret1")

\* the sessions of alice across a change of her password: she logs in and
\* asks for a reset link; change-password runs concurrently with
\* reset-password (the token in the body); /verify and /logout are called with her
\* session tokens once the password has changed; time passes between her
\* first and her second login
NextKeep ==
    \/ Login(1, "alice", NoStr, "secret1")
    \/ LoginCreate(1)
    \/ issued = {} /\ Forgot(1, "a@x.com")
    \/ SendMail(1, TRUE)
    \/ \E t \in Handed : StartChange(1, t, "secret1", "secret2")
    \/ \E s \in Slots : CpFind(s)
    \/ \E s \in Slots : CpSave(s)
    \/ \E s \in Slots, t \in issued : ResetPassword(s, NoToken, t, "secret2")
    \/ \E s \in Slots : RsSave(s)
    \/ \E s \in Slots, op \in {"verify", "logout"}, t \in Handed :
          PasswordChanged /\ StartAuth(s, op, t, NoStr, NoStr)
    \/ \E s \in Slots : VtSession(s)
    \/ \E s \in Slots : VtUser(s)
    \/ \E s \in Slots : LogoutUpdate(s)
    \/ Cardinality(sessions) = 1 /\ ~PasswordChanged /\ clock < MaxTick /\ Tick

SpecKeep == InitRegistered /\ [][NextKeep]_vars

\* bob (unverified, role 'user') logs in; then his verification link is
\* issued and consumed and the admin alice assigns him 'admin', while /verify
\* is called with the session tokens and POST /roles with bob's
NextFresh ==
    \/ \E c \in {<<"alice", "secret1">>, <<"bob", "secret2">>} : Login(1, c[1], NoStr, c[2])
    \/ LoginCreate(1)
    \/ issued = {} /\ Resend(1, "b@x.com")
    \/ SendMail(1, TRUE)
    \/ \E s \in Slots, t \in issued : Verification(s, t)
    \/ \E s \in Slots : VerSave(s)
    \/ \E s \in Slots, t \in {x.token : x \in sessions} :
          \/ StartAuth(s, "verify", t, NoStr, NoStr)
          \/ t.id = 1 /\ StartRole(1, "assignRole", t, NoStr, 2, 2)
          \/ t.id = 2 /\ StartRole(s, "createRole", t, "editor", NoId, NoId)
    \/ \E s \in Slots : VtSession(s)
    \/ \E s \in Slots : VtUser(s)
    \/ \E s \in Slots : RoleAssign(s)
    \/ \E s \in Slots : RoleCreate(s)

SpecFresh == InitAdmin /\ [][NextFresh]_vars

\* signups and profile updates, concurrently, from the empty tables, over
\* two usernames and two emails: alice signs up and logs in, 'bob' signs up
\* with either email, and alice renames to 'bob' or moves to b@x.com
NextUnique ==
    \/ Signup(1, "alice", "a@x.com", "secret1")
    \/ \E s \in Slots, e \in {"a@x.com", "b@x.com"} : Signup(s, "bob", e, "secret1")
    \/ \E s \in Slots : SuCreate(s)
    \/ \E s \in Slots : SuRole(s)
    \/ \E s \in Slots : SendMail(s, TRUE)
    \/ Login(1, "alice", NoStr, "secret1")
    \/ LoginCreate(1)
    \/ \E s \in Slots, t \in {x.token : x \in sessions},
          c \in {<<"bob", NoStr>>, <<NoStr, "b@x.com">>} :
          StartAuth(s, "updateUser", t, c[1], c[2])
    \/ \E s \in Slots : VtSession(s)
    \/ \E s \in Slots : VtUser(s)
    \/ \E s \in Slots : UpdFind(s)
    \/ \E s \in Slots : UpdSave(s)

SpecUnique == Init /\ [][NextUnique]_vars

\* The server is listening and sync({force: true}) has recreated the tables,
\* all empty; initial() has not run yet
InitStart ==
    /\ users = <<>>
    /\ sessions = {}
    /\ roles = <<>>
    /\ userRoles = {}
    /\ mailbox = {}
    /\ clock = 0
    /\ req = [s \in Slots |-> Idle]
    /\ consumed = {}
    /\ issued = {}
    /\ LegacyInit

\* signups arriving while initial() seeds the roles
NextStart ==
    \/ Initial
    \/ \E s \in Slots, c \in {<<"alice", "a@x.com">>, <<"bob", "b@x.com">>} :
          Signup(s, c[1], c[2], "secret1")
    \/ \E s \in Slots : SuCreate(s)
    \/ \E s \in Slots : SuRole(s)
    \/ \E s \in Slots, ok \in BOOLEAN : SendMail(s, ok)

SpecStart == InitStart /\ [][NextStart]_vars

\* the legacy program: alice (verified) logs in from either address, bob (not
\* verified) with the right and with a wrong password, and carol (not
\* verified, password expired); the mailed tokens are presented to /verify,
\* and the long-lived tokens of the login responses (or none) to
\* /userresponse from either address, now and a year later
NextLegacy ==
    \/ \E a \in Addrs : LegacyLogin(1, a, "a@x.com", "secret1")
    \/ \E c \in {<<"b@x.com", "secret2">>, <<"b@x.com", "secret1">>, <<"c@x.com", "secret1">>} :
          LegacyLogin(1, "10.0.0.1", c[1], c[2])
    \/ LegacyLoginHash(1)
    \/ LegacySendMail(1, TRUE)
    \/ \E t \in {m.token : m \in outbox} : LegacyVerify(1, t)
    \/ LegacyVerifyUpdate(1)
    \/ \E s \in Slots, a \in Addrs,
          t \in {x \in LegacyHanded : x.header = "lt"} \cup {NoLegacyToken} :
          UserResponse(s, a, t)
    \/ \E s \in Slots : UserResponseQuery(s)
    \/ TickYear

SpecLegacy == Init /\ [][NextLegacy]_vars

\* roleAuthorization on every request context and every allowedRoles
NextRole ==
    \E s \in Slots, allowed \in SUBSET RoleNames, ctx \in Contexts : RoleCheck(s, allowed, ctx)

SpecRole == Init /\ [][NextRole]_vars

\* ================================================================== claims
\* token t has a row that logout flagged
Revoked(t) == \E x \in sessions : x.token = t /\ x.flag

\* token t has a row that is not flagged
Live(t) == \E x \in sessions : x.token = t /\ ~x.flag

\* u names a stored identity whose stored digest is the digest of p
ValidCreds(u, p) ==
    \E i \in 1..Len(users) : users[i].username = u /\ users[i].password = Hash(p)

\* C1: a revoked token stays revoked (its row stays flagged and no unflagged
\* row with the same token ever appears, whatever operation runs, new logins
\* included), and every request whose session lookup runs while the token is
\* revoked is answered 401 without reaching the next stage.
C1_RevokedNeverPasses ==
    [][ /\ \A x \in sessions : x.flag =>
              /\ \E y \in sessions' : y.token = x.token
              /\ \A y \in sessions' : y.token = x.token => y.flag
        /\ \A s \in Slots :
              (req[s].pc = "vt_session" /\ Revoked(req[s].tok) /\ req'[s] # req[s])
              => (req'[s].pc = "done" /\ req'[s].status = 401 /\ ~req'[s].nexted)
      ]_vars

\* a request presenting a revoked token was answered "blacklisted" while the
\* same identity holds a newer session that is not revoked
C1_Witness ==
    \E s \in Slots :
        /\ req[s].pc = "done" /\ req[s].status = 401
        /\ req[s].msg = "Token is blacklisted"
        /\ Revoked(req[s].tok)
        /\ \E y \in sessions : /\ y.userId = req[s].tok.id /\ ~y.flag
                               /\ y.token.iat > req[s].tok.iat

C3_LoginIssuesToken ==
    \A s \in Slots :
        (req[s].op = "login" /\ req[s].pc = "done"
            /\ ValidCreds(req[s].username, req[s].password))
        => LET i == FindByUsername(req[s].username)
           IN /\ req[s].status = 200
              /\ req[s].out.id = i
              /\ req[s].out.username = users[i].username
              /\ req[s].out.verified = BoolClaim(users[i].emailVerified)

\* C4: every step of a login whose credentials are missing, name no identity
\* or do not match leaves the Sessions table as it was, carries no token and
\* ends the request with 400 or 401.
C4_FailedLoginNoSession ==
    [][ \A s \in Slots :
          (req'[s] # req[s] /\ req'[s].op = "login"
              /\ ~ValidCreds(req'[s].username, req'[s].password))
          => /\ sessions' = sessions
             /\ req'[s].out = NoToken
             /\ req'[s].pc = "done" /\ req'[s].status \in {400, 401}
      ]_vars

\* a login with the wrong password for a stored identity was answered 401
\* while the table holds a session
C4_Witness ==
    \E s \in Slots :
        /\ req[s].op = "login" /\ req[s].pc = "done" /\ req[s].status = 401
        /\ FindByUsername(req[s].username) # NoId
        /\ sessions # {}

\* C5: whenever two logins with valid credentials for one identity have both
\* finished, both got 200 and the two tokens are distinct.
C5_BothLoginsSucceed ==
    \A s1, s2 \in Slots :
        (/\ s1 # s2
         /\ req[s1].op = "login" /\ req[s1].pc = "done"
         /\ req[s2].op = "login" /\ req[s2].pc = "done"
         /\ req[s1].username = req[s2].username
         /\ ValidCreds(req[s1].username, req[s1].password)
         /\ ValidCreds(req[s2].username, req[s2].password))
        => /\ req[s1].status = 200 /\ req[s2].status = 200
           /\ req[s1].out # req[s2].out


\* C6: an identity whose emailVerified flag is true has had a verify-email
\* token for its own id and its current email consumed.
C6_VerifiedMeansConsumed ==
    \A i \in 1..Len(users) :
        users[i].emailVerified => <<i, users[i].email>> \in consumed


\* the three kinds of token the server issues, told apart by how they were
\* signed and by the claims they carry
IsSessionToken(t) == t.alg = "RS256" /\ t.key = "private"
IsVerifyEmailToken(t) == t.alg = "HS256" /\ t.key = "secret" /\ t.email # NoStr /\ t.username = NoStr
IsResetToken(t) == t.alg = "HS256" /\ t.key = "secret" /\ t.username # NoStr /\ t.email = NoStr

\* request s was just accepted into stage pc
Entered(s, pc) == req'[s].pc = pc /\ req[s].pc # pc

\* C7: verification-consume accepts neither a session token nor a reset token,
\* reset-password accepts neither a session token nor a verify-email token,
\* and verifyToken's signature check accepts no action token.
C7_TokensNotInterchangeable ==
    [][ \A s \in Slots :
          /\ Entered(s, "ver_save") =>
                ~IsSessionToken(req'[s].tok) /\ ~IsResetToken(req'[s].tok)
          /\ Entered(s, "rs_save") =>
                ~IsSessionToken(req'[s].btok) /\ ~IsVerifyEmailToken(req'[s].btok)
          /\ Entered(s, "vt_session") =>
                ~IsVerifyEmailToken(req'[s].tok) /\ ~IsResetToken(req'[s].tok)
      ]_vars

\* an unexpired reset token of a stored identity was refused by
\* verification-consume
C7_Witness ==
    /\ req[1].op = "verification" /\ req[1].pc = "done" /\ req[1].status = 400
    /\ IsResetToken(req[1].tok)
    /\ VerifyActionJwt(req[1].tok, clock) = "ok"
    /\ FindByIdUsername(req[1].tok.id, req[1].tok.username) # NoId

\* the first instant at which a token issued in second iat is out of date
Deadline(t) == (t.iat + OneHour) * TicksPerSec

RoleDone(s) == req[s].op = "role" /\ req[s].pc = "done"

C10_NoRolesAccessDenied ==
    \A s \in Slots :
        (RoleDone(s) /\ (~req[s].ctx.present \/ ~req[s].ctx.hasRole \/ req[s].ctx.role = {}))
        => /\ req[s].status = 403
           /\ req[s].msg = "Access denied"
           /\ ~req[s].nexted


\* C11: a request whose bearer token carries a valid signature and is within
\* its lifetime but lacks id or username is answered, in the very step that
\* receives it (so before the session lookup and the identity lookup), 401
\* 'Token is missing required user information', and next is not called.
C11_MissingClaimsRefused ==
    [][ \A s \in Slots :
          (/\ Free(s) /\ req'[s] # req[s]
           /\ req'[s].op \in AuthOps \cup RoleOps
           /\ req'[s].tok # NoToken
           /\ VerifySessionJwt(req'[s].tok, clock) = "ok"
           /\ (req'[s].tok.id = NoId \/ req'[s].tok.username = NoStr))
          => /\ req'[s].pc = "done" /\ req'[s].status = 401
             /\ req'[s].msg = "Token is missing required user information"
             /\ ~req'[s].nexted
             /\ req'[s].ctx = NoCtx
      ]_vars

\* a well-signed token that names the stored identity 1 but no username was
\* refused for its missing claim
C11_Witness ==
    \E s \in Slots :
        /\ req[s].pc = "done" /\ req[s].status = 401
        /\ req[s].msg = "Token is missing required user information"
        /\ req[s].tok.id = 1 /\ req[s].tok.username = NoStr
        /\ VerifySessionJwt(req[s].tok, clock) = "ok"

\* the identity request s was authenticated as holds the role 'admin' now
AdminNow(s) ==
    /\ req[s].ctx.present
    /\ req[s].ctx.id = req[s].tok.id
    /\ req[s].ctx.id \in 1..Len(users)
    /\ "admin" \in RolesOf(req[s].ctx.id)

RoleStages == {"role_create", "role_assign", "role_get"}

\* C12: a role controller is entered only from verifyToken's last stage by a
\* request that passed it and whose identity holds 'admin'; the controller's
\* query runs for such a request only; and the Roles and UserRoles tables
\* change only in such a step.
C12_RoleRoutesAdminOnly ==
    [][ /\ \A s \in Slots :
              /\ (req'[s].pc \in RoleStages /\ req[s].pc \notin RoleStages)
                    => /\ req[s].pc = "vt_user" /\ req'[s].nexted
                       /\ Live(req[s].tok)
                       /\ AdminNow(s)'
              /\ (req[s].pc \in RoleStages /\ req'[s] # req[s]) => AdminNow(s)
        /\ (roles' # roles \/ userRoles' # userRoles)
              => \E s \in Slots : /\ req[s].pc \in {"role_create", "role_assign"}
                                   /\ req'[s].pc = "done" /\ AdminNow(s)
      ]_vars

\* bob, made admin by alice's assign-role, has created a role, and a request
\* of an identity without 'admin' was refused
C12_Witness ==
    \E s1, s2 \in Slots :
        /\ req[s1].op = "createRole" /\ req[s1].status = 201 /\ req[s1].ctx.id = 2
        /\ Len(roles) = 3
        /\ req[s2].op \in RoleOps /\ req[s2].status = 403 /\ req[s2].pc = "done"

\* C13: every reset-password request that carries, as its path segment, an
\* unexpired reset token signed by forgot-password for an identity whose id
\* and username still match ends with 200 and with the identity's stored
\* hash being the hash of newPassword.
C13_ResetByPathToken ==
    [][ \A s \in Slots :
          (/\ req'[s] # req[s] /\ req'[s].op = "reset" /\ req'[s].pc = "done"
           /\ req'[s].tok \in issued /\ IsResetToken(req'[s].tok)
           /\ VerifyActionJwt(req'[s].tok, clock) = "ok"
           /\ FindByIdUsername(req'[s].tok.id, req'[s].tok.username) # NoId)
          => /\ req'[s].status = 200
             /\ users'[req'[s].tok.id].password = Hash(req'[s].password)
      ]_vars

\* C14: the step that answers a forgot-password request with 200 has put in
\* the outbox a mail to the identity's email that embeds the reset token the
\* request signed for the identity's id and username.
C14_ForgotMailsResetLink ==
    [][ \A s \in Slots :
          (req[s].op = "forgot" /\ req[s].pc = "mail" /\ req'[s].status = 200)
          => /\ IsResetToken(req[s].link)
             /\ req[s].link.id = req[s].snap.id
             /\ req[s].link.username = req[s].snap.username
             /\ [to |-> req[s].snap.email, token |-> req[s].link] \in mailbox'
      ]_vars

\* C15: every finished login that carried no username but the email of a
\* stored identity together with that identity's password got 200 and a
\* session token of that identity.
C15_LoginByEmail ==
    \A s \in Slots :
        (/\ req[s].op = "login" /\ req[s].pc = "done" /\ req[s].username = NoStr
         /\ \E i \in 1..Len(users) :
               users[i].email = req[s].email /\ users[i].password = Hash(req[s].password))
        => /\ req[s].status = 200
           /\ IsSessionToken(req[s].out)
           /\ req[s].out.id = FindByEmail(req[s].email)

MatchesIdEmail(t) ==
    \E i \in 1..Len(users) : i = t.id /\ users[i].email = t.email /\ t.email # NoStr

ActionTokenGood(t) == t # NoToken /\ JwtVerify(t, "secret", {"HS256"}, clock) = "ok"

\* another request than s has finished with 200 on route op with token t
AcceptedBefore(s, op, t) ==
    \E s2 \in Slots \ {s} :
        /\ req[s2].op = op /\ req[s2].pc = "done" /\ req[s2].status = 200
        /\ (IF op = "reset" THEN req[s2].btok ELSE req[s2].tok) = t

\* C18: a verify-email token that was accepted before, presented again within
\* its lifetime while an identity still matches its id and email, reaches the
\* save stage again, and that stage answers 200 and leaves emailVerified
\* true; a reset token that was accepted before, presented again (as the
\* controller reads it) within its lifetime while an identity still matches
\* its id and username, reaches the save stage again, which answers 200.
C18_ActionTokensReusable ==
    [][ \A s \in Slots :
          /\ (/\ Free(s) /\ req'[s] # req[s] /\ req'[s].op = "verification"
              /\ AcceptedBefore(s, "verification", req'[s].tok)
              /\ ActionTokenGood(req'[s].tok) /\ MatchesIdEmail(req'[s].tok))
             => req'[s].pc = "ver_save"
          /\ (req[s].pc = "ver_save" /\ req'[s] # req[s])
             => /\ req'[s].pc = "done" /\ req'[s].status = 200
                /\ users'[req[s].snap.id].emailVerified
          /\ (/\ Free(s) /\ req'[s] # req[s] /\ req'[s].op = "reset"
              /\ AcceptedBefore(s, "reset", req'[s].btok)
              /\ ActionTokenGood(req'[s].btok)
              /\ \E i \in 1..Len(users) :
                    i = req'[s].btok.id /\ users[i].username = req'[s].btok.username)
             => req'[s].pc = "rs_save"
          /\ (req[s].pc = "rs_save" /\ req'[s] # req[s])
             => /\ req'[s].pc = "done" /\ req'[s].status = 200
      ]_vars

\* one verification link has been consumed twice, both times with 200, and
\* the identity is verified
C18_Witness ==
    \E s1, s2 \in Slots :
        /\ s1 # s2
        /\ req[s1].op = "verification" /\ req[s1].pc = "done" /\ req[s1].status = 200
        /\ req[s2].op = "verification" /\ req[s2].pc = "done" /\ req[s2].status = 200
        /\ req[s1].tok = req[s2].tok
        /\ users[req[s1].tok.id].emailVerified

\* C19: a signup reaches its 201 only through the create, the role
\* assignment and the send, in that order: the create appends exactly one
\* identity carrying the username and email sent, the hash of the password
\* sent and emailVerified false; the next step assigns that identity role 1,
\* which is 'user'; the step that answers 201 puts in the outbox a mail to the
\* email sent whose link is a verify-email token for the identity's id and
\* email, and the identity is then the only one stored under that email.  A
\* signup whose email is registered when it is looked up is answered 400
\* 'User already registered' and creates nothing.
C19_SignupCreates ==
    [][ \A s \in Slots :
          /\ (req[s].op = "signup" /\ req[s].pc = "su_create" /\ req'[s].pc = "su_role")
             => /\ users' = Append(users, [username |-> req[s].username,
                                           email |-> req[s].email,
                                           password |-> Hash(req[s].password),
                                           emailVerified |-> FALSE])
                /\ req'[s].snap.id = Len(users')
          /\ (req'[s].op = "signup" /\ req'[s].pc = "mail" /\ req[s].pc # "mail")
             => /\ req[s].pc = "su_role"
                /\ <<req[s].snap.id, 1>> \in userRoles'
                /\ "user" \in RolesOf(req[s].snap.id)'
          /\ (req'[s].op = "signup" /\ req'[s].status = 201 /\ req'[s] # req[s])
             => /\ req[s].op = "signup" /\ req[s].pc = "mail"
                /\ \E m \in mailbox' :
                      /\ m.to = req[s].email /\ IsVerifyEmailToken(m.token)
                      /\ m.token.id = req[s].snap.id /\ m.token.email = req[s].email
                /\ {i \in 1..Len(users) : users[i].email = req[s].email} = {req[s].snap.id}
                /\ users[req[s].snap.id].password = Hash(req[s].password)
          /\ (/\ Free(s) /\ req'[s] # req[s] /\ req'[s].op = "signup"
              /\ \E i \in 1..Len(users) : users[i].email = req'[s].email)
             => /\ req'[s].pc = "done" /\ req'[s].status = 400
                /\ req'[s].msg = "User already registered"
                /\ users' = users /\ userRoles' = userRoles /\ mailbox' = mailbox
      ]_vars

\* one signup was answered 201 and a second signup for the same email was
\* answered 400 while one identity is stored
C19_Witness ==
    \E s1, s2 \in Slots :
        /\ req[s1].op = "signup" /\ req[s1].status = 201
        /\ req[s2].op = "signup" /\ req[s2].status = 400
        /\ req[s1].email = req[s2].email
        /\ Len(users) = 1 /\ userRoles = {<<1, 1>>} /\ Cardinality(mailbox) = 1

\* a signup for email e ended in the catch block after a link for e was signed
MailFailed(s, e) ==
    /\ req[s].op = "signup" /\ req[s].pc = "done" /\ req[s].status = 500
    /\ req[s].email = e
    /\ \E t \in issued : IsVerifyEmailToken(t) /\ t.email = e

UniqueConflict(s) ==
    \/ req[s].pc = "su_create" /\ UserInsertFails(req[s].username, req[s].email)
    \/ /\ req[s].pc = "upd_save"
       /\ UserUpdateFails(req[s].snap.id,
                          Updated(req[s].snap, req[s].username, req[s].email), req[s].snap)
    \/ req[s].pc = "role_create" /\ RoleInsertFails(req[s].roleName)

\* C21: the step of a signup, a profile update or a role creation whose write
\* is rejected because a unique field is taken ends the request with 400 or
\* 409 and leaves Users, UserRoles, Roles and the outbox as they were.
C21_UniqueConflictIsClientError ==
    [][ \A s \in Slots :
          (UniqueConflict(s) /\ req'[s] # req[s])
          => /\ req'[s].pc = "done" /\ req'[s].status \in {400, 409}
             /\ users' = users /\ userRoles' = userRoles
             /\ roles' = roles /\ mailbox' = mailbox
      ]_vars

\* C22: after every step no two rows of Sessions hold the same token and each
\* row's userId is the id claim of its token; a row appears only in the step
\* of a login that creates it, for the identity that login read; and every
\* row stays in the table with the token and the userId it had.
C22_SessionBoundToIdentity ==
    [][ /\ \A x, y \in sessions' : x.token = y.token => x = y
        /\ \A x \in sessions' : x.userId = x.token.id
        /\ \A x \in sessions' \ sessions :
              \/ \E y \in sessions : y.token = x.token /\ y.userId = x.userId
              \/ \E s \in Slots : /\ req[s].pc = "login_create" /\ req'[s].out = x.token
                                   /\ req[s].snap.id = x.userId /\ ~x.flag
        /\ \A x \in sessions :
              \E y \in sessions' : y.token = x.token /\ y.userId = x.userId
      ]_vars

\* a login in the second of a token that was revoked since was turned away by
\* the unique index, and the only row of the identity is the revoked one
C22_Witness ==
    \E s \in Slots :
        /\ req[s].op = "login" /\ req[s].pc = "done" /\ req[s].status = 500
        /\ \E x \in sessions : x.flag /\ x.token.username = req[s].username
        /\ \A x \in sessions : x.flag

\* C23: after every step each row of UserRoles names a stored identity and a
\* stored role; and the step of an assign-role request that names an identity
\* id or a role id that is not stored ends the request with an error status
\* and leaves UserRoles as it was.
C23_AssignmentsReferToRows ==
    [][ /\ \A x \in userRoles' : x[1] \in 1..Len(users') /\ x[2] \in 1..Len(roles')
        /\ \A s \in Slots :
              (/\ req[s].pc = "role_assign" /\ req'[s] # req[s]
               /\ (req[s].userId \notin 1..Len(users) \/ req[s].roleId \notin 1..Len(roles)))
              => /\ req'[s].pc = "done" /\ req'[s].status >= 400
                 /\ userRoles' = userRoles
      ]_vars

\* an assignment to a role id was refused while the role was not stored, and
\* an assignment to the same role id was made once it was
C23_Witness ==
    \E s1, s2 \in Slots :
        /\ req[s1].op = "assignRole" /\ req[s1].pc = "done" /\ req[s1].status = 500
        /\ req[s1].userId = 2 /\ req[s1].roleId = 3
        /\ req[s2].op = "assignRole" /\ req[s2].pc = "done" /\ req[s2].status = 200
        /\ req[s2].roleId = 3
        /\ <<2, 3>> \in userRoles

\* C24: the step in which get-user-roles reads the identity answers 200 with
\* the names of the identity's roles (the empty list when it has none) when
\* the id names a stored identity, and 404 when it names none.
C24_RolesOfOr404 ==
    [][ \A s \in Slots :
          (req[s].pc = "role_get" /\ req'[s] # req[s])
          => /\ req'[s].pc = "done"
             /\ IF req[s].userId \in 1..Len(users)
                THEN req'[s].status = 200 /\ req'[s].outRoles = RolesOf(req[s].userId)
                ELSE req'[s].status = 404
      ]_vars

\* the row logout of request s addresses: its bearer token, owned by the
\* identity the request was authenticated as
LogoutTarget(s, x) == x.token = req[s].tok /\ x.userId = req[s].ctx.id

VerifiedOps == AuthOps \cup RoleOps \cup {"changePassword"}

\* the stages of verifyToken past its first await
VtStages == {"vt_session", "vt_user"}

\* C27: a step of verifyToken's session lookup or identity lookup either goes
\* on (to the identity lookup, or through next() into the route), or ends the
\* request with 401 without calling next, the message being that of the
\* lookup's own refusal or 'Token verification failed'; and every response
\* verifyToken itself gives, from the receipt of the request on, has status
\* 401.
C27_LookupFailureIs401 ==
    [][ \A s \in Slots :
          /\ (req[s].pc = "vt_session" /\ req'[s] # req[s]) =>
                \/ req'[s].pc = "vt_user" /\ Live(req[s].tok)
                \/ /\ req'[s].pc = "done" /\ req'[s].status = 401 /\ ~req'[s].nexted
                   /\ req'[s].msg \in {"Token is blacklisted", "Token verification failed"}
          /\ (req[s].pc = "vt_user" /\ req'[s] # req[s]) =>
                \/ req'[s].nexted
                \/ /\ req'[s].pc = "done" /\ req'[s].status = 401
                   /\ req'[s].msg \in {"User not found", "Token verification failed"}
          /\ (/\ req'[s] # req[s] /\ req'[s].op \in VerifiedOps
              /\ req'[s].pc = "done" /\ ~req'[s].nexted)
             => req'[s].status = 401
      ]_vars

\* two requests presenting a token with a live session were each refused
\* because a lookup of verifyToken failed
C27_Witness ==
    \E s1, s2 \in Slots :
        /\ req[s1].pc = "done" /\ req[s1].msg = "Token verification failed"
        /\ req[s1].status = 401 /\ ~req[s1].nexted /\ Live(req[s1].tok)
        /\ req[s2].pc = "done" /\ req[s2].msg = "Token verification failed"
        /\ Live(req[s2].tok)
        /\ s1 # s2

\* C28: the step in which a profile update saves and answers 200 leaves the
\* identity with emailVerified false when the request carried an email, and
\* with the emailVerified and the email it had when the request carried none;
\* either way the identity's password hash is the one it had.
C28_UpdateResetsVerified ==
    [][ \A s \in Slots :
          (req[s].pc = "upd_save" /\ req'[s].pc = "done" /\ req'[s].status = 200)
          => LET i == req[s].snap.id
             IN /\ users'[i].password = users[i].password
                /\ IF req[s].email # NoStr
                   THEN ~users'[i].emailVerified
                   ELSE /\ users'[i].emailVerified = users[i].emailVerified
                        /\ users'[i].email = users[i].email
      ]_vars

\* C29: the password hash of an identity is written only by the create of a
\* signup, the save of a reset-password and the save of a change-password,
\* each with the hash of the password that request carried; a login naming a
\* stored identity passes the password check exactly when its password is
\* the one so stored, and is answered 401 otherwise; and a login that has
\* passed the check is answered 200.
C29_LoginIffLatestPassword ==
    [][ /\ \A i \in 1..Len(users') :
              (i > Len(users) \/ users'[i].password # users[i].password)
              => \E s \in Slots :
                    /\ req[s].pc \in {"su_create", "rs_save", "cp_save"}
                    /\ req'[s] # req[s]
                    /\ users'[i].password =
                          Hash(IF req[s].pc = "cp_save" THEN req[s].newPassword
                               ELSE req[s].password)
        /\ \A s \in Slots :
              /\ (/\ Free(s) /\ req'[s] # req[s] /\ req'[s].op = "login"
                  /\ req'[s].password # NoStr
                  /\ FindByUsername(req'[s].username) # NoId)
                 => IF users[FindByUsername(req'[s].username)].password = Hash(req'[s].password)
                    THEN req'[s].pc = "login_create"
                    ELSE req'[s].pc = "done" /\ req'[s].status = 401
              /\ (req[s].pc = "login_create" /\ req'[s] # req[s])
                 => req'[s].pc = "done" /\ req'[s].status = 200
      ]_vars

\* a login with username u and password p is one that must be turned away:
\* no identity is stored under u, or the one stored has another password
BadCreds(u, p) ==
    \A i \in 1..Len(users) : users[i].username = u => users[i].password # Hash(p)

C31_TokenCheckedFirst ==
    [][ \A s \in Slots :
          (/\ Free(s) /\ req'[s] # req[s] /\ req'[s].op \in VerifiedOps
           /\ VerifySessionJwt(req'[s].tok, clock) # "ok")
          => /\ req'[s].pc = "done" /\ req'[s].status = 401
             /\ ~req'[s].nexted
      ]_vars

\* C32: a request to a route behind verifyToken is never left without an
\* outcome; when verifyToken has answered it (the request is finished and
\* next was not called) the status is 401; and when next was called the
\* request carries the context {id, username, verified, role} of the identity
\* named by its token.
C32_OneOutcome ==
    \A s \in Slots :
        req[s].op \in VerifiedOps =>
            /\ req[s].pc # "hung"
            /\ (req[s].pc = "done" /\ ~req[s].nexted) => req[s].status = 401
            /\ req[s].nexted =>
                  /\ req[s].ctx.present /\ req[s].ctx.hasRole
                  /\ req[s].ctx.id = req[s].tok.id
                  /\ req[s].ctx.username = req[s].tok.username

\* the identity token claims id and username name is stored under another
\* username now
Renamed(id, u) == id \in 1..Len(users) /\ users[id].username # u

\* C33: the identity lookup of verifyToken lets a request on only when the
\* identity stored under the token's id carries the token's username, and
\* otherwise answers 401 'User not found' without calling next and without
\* touching the session row; and a reset-password request whose reset token
\* names an identity that is stored under another username now is answered
\* 400 in the step that receives it and never reaches the save.
C33_RenameInvalidatesTokens ==
    [][ \A s \in Slots :
          /\ (req[s].pc = "vt_user" /\ req'[s] # req[s]
                 /\ Renamed(req[s].tok.id, req[s].tok.username))
             => /\ req'[s].pc = "done" /\ req'[s].status = 401
                /\ req'[s].msg = "User not found" /\ ~req'[s].nexted
                /\ sessions' = sessions
          /\ (req'[s].nexted /\ ~req[s].nexted /\ req'[s].op \in VerifiedOps)
             => users[req[s].tok.id].username = req[s].tok.username
          /\ (/\ Free(s) /\ req'[s] # req[s] /\ req'[s].op = "reset"
              /\ IsResetToken(req'[s].btok)
              /\ Renamed(req'[s].btok.id, req'[s].btok.username))
             => /\ req'[s].pc = "done" /\ req'[s].status = 400
                /\ users' = users
      ]_vars

\* after alice was renamed, her session token, whose row is not revoked, was
\* answered 'User not found' and her reset link, within its hour, was refused
C33_Witness ==
    \E s1, s2 \in Slots :
        /\ users[1].username = "carol"
        /\ req[s1].op = "verify" /\ req[s1].pc = "done" /\ req[s1].status = 401
        /\ req[s1].msg = "User not found" /\ Live(req[s1].tok)
        /\ req[s1].tok.username = "alice"
        /\ req[s2].op = "reset" /\ req[s2].pc = "done" /\ req[s2].status = 400
        /\ req[s2].btok \in issued /\ req[s2].btok.username = "alice"
        /\ VerifyActionJwt(req[s2].btok, clock) = "ok"

\* C34: no step of a change-password or reset-password request changes the
\* Sessions table, and no step that changes a password does; a row's flag
\* turns true only in the logout of a request carrying that row's token; and
\* a request presenting a session token that is signed, unexpired and has an
\* unflagged row, for an identity still stored under the token's username,
\* passes each stage of verifyToken, whatever the identity's password is.
C34_PasswordChangeKeepsSessions ==
    [][ /\ \A s \in Slots :
              /\ (req'[s] # req[s] /\ req'[s].op \in {"changePassword", "reset"})
                    => sessions' = sessions
              /\ (/\ Free(s) /\ req'[s] # req[s] /\ req'[s].op \in VerifiedOps
                  /\ VerifySessionJwt(req'[s].tok, clock) = "ok")
                    => req'[s].pc = "vt_session"
              /\ (req[s].pc = "vt_session" /\ req'[s] # req[s] /\ Live(req[s].tok))
                    => req'[s].pc = "vt_user"
              /\ (req[s].pc = "vt_user" /\ req'[s] # req[s]
                      /\ ~Renamed(req[s].tok.id, req[s].tok.username)
                      /\ req[s].tok.id \in 1..Len(users))
                    => req'[s].nexted
        /\ users' # users => sessions' = sessions
        /\ \A x \in sessions :
              ~x.flag => \/ x \in sessions'
                         \/ \E s \in Slots : req[s].pc = "logout_update" /\ req[s].tok = x.token
      ]_vars

\* a session token of alice passed /verify in a request made after her
\* password was changed, and the Sessions table still holds its unflagged row
C34_Witness ==
    \E s \in Slots :
        /\ req[s].op = "verify" /\ req[s].pc = "done" /\ req[s].status = 200
        /\ Live(req[s].tok) /\ req[s].tok.id = 1
        /\ PasswordChanged

\* C35: the identity lookup of verifyToken that lets the request through
\* attaches the stored emailVerified flag and the names of the roles
\* assigned to the identity as they are at that lookup; the token's verified
\* claim, fixed at issuance, is not used.
C35_ContextIsCurrent ==
    [][\A s \in Slots :
          (req[s].pc = "vt_user" /\ req'[s].nexted)
             => /\ req[s].tok.id \in 1..Len(users)
                /\ req'[s].ctx.present /\ req'[s].ctx.hasRole
                /\ req'[s].ctx.id = req[s].tok.id
                /\ req'[s].ctx.verified = users[req[s].tok.id].emailVerified
                /\ req'[s].ctx.role = RolesOf(req[s].tok.id)
      ]_vars

\* bob's session token, issued while he was unverified and held 'user' only,
\* got a POST /roles through roleAuthorization(['admin']) with verified = true
\* in the context
C35_Witness ==
    \E s \in Slots :
        /\ req[s].op = "createRole" /\ req[s].pc = "done" /\ req[s].status = 201
        /\ req[s].tok.id = 2 /\ req[s].tok.verified = "false"
        /\ req[s].ctx.verified /\ "admin" \in req[s].ctx.role

\* C36: no two rows of Users carry the same username and no two carry the
\* same email, in every state signups and profile updates can reach.
C36_UsernamesAndEmailsUnique ==
    \A i \in 1..Len(users), j \in 1..Len(users) :
        i # j => /\ users[i].username # users[j].username
                 /\ users[i].email # users[j].email

\* a signup of 'bob' with a free email passed its probe and was refused by
\* the unique index on the username, which a profile update of the only
\* stored identity had taken
C36_Witness ==
    \E s1 \in Slots, s2 \in Slots :
        /\ req[s1].op = "signup" /\ req[s1].pc = "done" /\ req[s1].status = 500
        /\ req[s2].op = "updateUser" /\ req[s2].pc = "done" /\ req[s2].status = 200
        /\ req[s1].username = "bob" /\ req[s2].username = "bob"
        /\ Len(users) = 1 /\ users[1].username = "bob"
        /\ req[s1].email # users[1].email

\* C37: whenever a signup is at its default-role assignment (its user row is
\* inserted and db.user_roles.create({userId, roleId: 1}) comes next), the
\* two seeded roles are stored and role id 1 is the role named 'user'.
C37_SeededBeforeSignup ==
    \A s \in Slots :
        req[s].pc = "su_role" => (Len(roles) >= Len(SeedRoles) /\ roles[1] = "user")

C39_LongLivedOnlyIfVerified ==
    \A s \in Slots :
        (lreq[s].op = "login" /\ lreq[s].out.header = "lt")
           => clienttable[lreq[s].out.a].varified
====
